---------------------------- MODULE Spec2Model ----------------------------
(***************************************************************************)
(* Publication coordinator of the social-automation repository: the        *)
(* scheduled sweep (processScheduledTweets / processTweetDocument), the    *)
(* manual publish callable (publishTweetNow) and the dashboard's writes to *)
(* the same tweet documents (tweetService.updateTweet / deleteTweet behind *)
(* the TweetList card buttons).                                            *)
(*                                                                         *)
(* Every access to a tweet document is a step of its own: the query, the   *)
(* lock transaction and the two terminal writes are separate actions, so   *)
(* that other invocations and the dashboard interleave where the code      *)
(* yields. The awaits between the lock and the terminal write (credential  *)
(* read, client construction, media upload, provider post) touch no tweet  *)
(* document and form one step. SpecAttempt follows a single attempt through *)
(* exactly those awaits, attachment by attachment.                         *)
(***************************************************************************)
EXTENDS Naturals, Sequences, FiniteSets, TLC

(* ------------------------------ bounds --------------------------------- *)

\* Tweet documents of the one account that is modelled.
NumTweets == 2

\* Invocations of the scheduled function that overlap in time.
MaxSweeps == 2

\* publishTweetNow calls that are in progress at the same time.
MaxCalls == 1

\* Timestamp.now() ranges over 0..MaxClock.
MaxClock == 1

\* Provider posts counted per tweet.
MaxPosts == 2

\* Writes the dashboard user issues.
MaxWrites == 2

\* Attachments a tweet document carries.
MaxMedia == 5

\* Days the slot allocator scans from the zone-local day of `now`; the code
\* scans 365 (schedule.ts:20, schedule.ts:80).
HorizonDays == 2

\* getNextScheduleSlots is asked for 0..MaxCount slots.
MaxCount == 3

\* Composer submits and retweet clicks on one dashboard.
MaxClicks == 2

\* Bulk runs on that dashboard, and the files of one.
MaxBulkRuns == 1
MaxBulkFiles == 2

\* Hours that pass while the dashboard is open.
MaxHours == 2

\* Files and slots that bulkScheduleTweets is given.
MaxFiles == 3
MaxSlots == 4

\* Calls of provisionLegacyTwitterAccount, one after the other.
MaxImports == 2

\* Tweet documents of the account whose media are followed.
MaxMediaDocs == 3

\* Files uploaded by "replace media" edits.
MaxUploads == 1

\* Clicks on Retweet, Delete and "Save changes" of the cards.
MaxCardClicks == 3

\* Documents of one page of the sweep's query where more tweets are due than
\* a page holds (the code's page is PageLimit documents).
PageSize == 1

(* ----------------------------- constants ------------------------------- *)

\* .limit(25) of the sweep's query.
PageLimit == 25

TweetIds == 1..NumTweets
Sweeps == 1..MaxSweeps
Calls == 1..MaxCalls

Null == "null"

\* The signed-in user who owns the tweets, and another signed-in user.
Owner == "u1"
Stranger == "u2"
Uids == {Owner, Stranger}

StoredTweetStatus ==
  {"draft", "scheduled", "queued", "manual", "processing", "posted", "failed"}

\* Texts a tweet can carry: the composed one and an edited one.
Texts == {"v1", "v2"}

\* A document that does not exist (snapshot.exists = false).
NoDoc ==
  [exists |-> FALSE, authorUid |-> Null, status |-> Null, lastError |-> Null,
   postedAt |-> Null, lastUpdatedAt |-> Null, text |-> Null, scheduledFor |-> 0]

\* createTweet's document. lastUpdatedAt names the write that stamped
\* serverTimestamp() last; postedAt is "server" (serverTimestamp) or "client"
\* (the dashboard's new Date()).
NewDoc(author, status, text, at) ==
  [exists |-> TRUE, authorUid |-> author, status |-> status, lastError |-> Null,
   postedAt |-> Null, lastUpdatedAt |-> "createTweet", text |-> text,
   scheduledFor |-> at]

(* ------------------------------- state --------------------------------- *)

VARIABLES
  tweets,     \* the tweets collection: TweetIds -> document
  clock,      \* Timestamp.now()
  sweep,      \* per overlapping invocation of processScheduledTweets: its position
  call,       \* per publishTweetNow call in progress: input, position, response
  posts,      \* per tweet: provider post calls that returned successfully
  contenders, \* per tweet: `waiting`, the attempts whose lock transaction was
              \* in flight when another attempt's took the tweet from
              \* `scheduled`; `acquired`, one of them got the lock as well
  uiStatus,   \* per card: tweet.status of the dashboard's last snapshot
  isEditing,  \* per card: the edit form is open (SortableTweetCard state)
  writes,     \* writes the dashboard has issued
  attempt,    \* one attempt after its lock, followed await by await: its
              \* position, the media of doc.data(), the upload loop's state
  slotCall,   \* one call of getNextScheduleSlot / getNextScheduleSlots: its
              \* arguments and what it returned or threw
  board,      \* one account's tweets as the store holds them, the snapshot
              \* the dashboard holds, and the handlers that are scheduling
  bulk,       \* one call of bulkScheduleTweets: arguments, shuffles, loop
              \* state, what the progress callback received
  legacy      \* provisionLegacyTwitterAccount: the groups collection and one
              \* call's position and response

vars ==
  <<tweets, clock, sweep, call, posts, contenders, uiStatus, isEditing, writes,
    attempt, slotCall, board, bulk, legacy>>

\* The state of the publication coordinator.
publicationVars ==
  <<tweets, clock, sweep, call, posts, contenders, uiStatus, isEditing, writes,
    attempt>>

(* ------------------------- firestore helpers --------------------------- *)

\* HttpsError(code, message)
HttpsError(code, message) == [code |-> code, message |-> message]
NoError == [code |-> Null, message |-> Null]
Success == [code |-> "ok", message |-> "success"]

\* The messages of the source, and error.message of the calls it wraps.
MsgNoAccount == "Twitter account configuration not found for this tweet."
MsgNoPermission == "You do not have permission to post with this social account."
MsgClient == "Unable to initialize Twitter client"
MsgUpload == "Unable to upload media"
MsgPost == "Failed to post tweet"
MsgStore == "Firestore update rejected"
MsgPrepare == "Unable to prepare tweet for publishing."

\* The payload both lock transactions write.
LockUpdate(doc) ==
  [doc EXCEPT !.status = "processing", !.lastUpdatedAt = "lock",
              !.lastError = Null]

\* A failure write that records the status and no message.
markTweetFailureNoMessage(doc, message) ==
  [doc EXCEPT !.status = "failed", !.lastUpdatedAt = "markTweetFailure"]

markTweetFailure(doc, message) ==
  [doc EXCEPT !.status = "failed", !.lastUpdatedAt = "markTweetFailure",
              !.lastError = message]

\* A success write that sets the status and nothing else.
markTweetPostedStatusOnly(doc) == [doc EXCEPT !.status = "posted"]

markTweetPosted(doc) ==
  [doc EXCEPT !.status = "posted", !.postedAt = "server",
              !.lastUpdatedAt = "markTweetPosted", !.lastError = Null]

\* groups/{groupId}/socialAccounts/{accountId} as the store may hold it.
AccountDocs ==
  {[exists |-> FALSE, provider |-> Null, ownerUid |-> Null, complete |-> FALSE]}
    \cup [exists : {TRUE}, provider : {"twitter"}, ownerUid : Uids,
          complete : BOOLEAN]
    \cup {[exists |-> TRUE, provider |-> "other", ownerUid |-> Owner,
           complete |-> TRUE]}

NullAccount == [found |-> FALSE, ownerUid |-> Null]

fetchTwitterAccountCredentials(acct) ==
  IF ~acct.exists THEN NullAccount
  ELSE IF acct.provider # "twitter" THEN NullAccount
  ELSE IF ~acct.complete THEN NullAccount
  ELSE [found |-> TRUE, ownerUid |-> acct.ownerUid]

(* ------------------ the attempt after its lock ------------------------- *)

\* publishTweetWithClient up to markTweetPosted: uploadMediaAttachments and
\* client.v2.tweet return or throw; a catch takes error.message. `posted` says
\* that the provider accepted the post.
publishTweetWithClient(uploadOk, postOk) ==
  IF ~uploadOk THEN [err |-> MsgUpload, posted |-> FALSE]
  ELSE IF ~postOk THEN [err |-> MsgPost, posted |-> FALSE]
  ELSE [err |-> Null, posted |-> TRUE]

\* tweetRef.update(...) is applied only to a document that exists, and the
\* store may reject it.
UpdateApplies(doc, storeOk) == storeOk /\ doc.exists

(* ----------------------------- the sweep ------------------------------- *)

\* The query without its status filter.
DueTweetsAnyStatus(now) ==
  {t \in TweetIds : tweets[t].exists /\ tweets[t].scheduledFor <= now}

\* .where('status', 'in', ['scheduled', 'queued']).where('scheduledFor', '<=', now)
DueTweets(now) ==
  {t \in TweetIds :
     /\ tweets[t].exists
     /\ tweets[t].status \in {"scheduled", "queued"}
     /\ tweets[t].scheduledFor <= now}

\* .orderBy('scheduledFor', 'asc'): the earliest of S (document id breaks ties).
Earliest(S) ==
  CHOOSE t \in S :
    \A u \in S :
      \/ tweets[t].scheduledFor < tweets[u].scheduledFor
      \/ tweets[t].scheduledFor = tweets[u].scheduledFor /\ t <= u

RECURSIVE OrderByScheduledFor(_)
OrderByScheduledFor(S) ==
  IF S = {} THEN <<>>
  ELSE LET t == Earliest(S)
       IN <<t>> \o OrderByScheduledFor(S \ {t})

\* A query without its limit.
LimitNone(seq, n) == seq

\* .limit(n)
Limit(seq, n) == IF Len(seq) <= n THEN seq ELSE SubSeq(seq, 1, n)

\* A QueryDocumentSnapshot: the reference and doc.data() as read by the query.
QuerySnapshotDoc(t) ==
  [id |-> t, data |-> [authorUid |-> tweets[t].authorUid, text |-> tweets[t].text]]

QueryDueTweets(now) ==
  LET ids == Limit(OrderByScheduledFor(DueTweets(now)), PageLimit)
  IN [i \in 1..Len(ids) |-> QuerySnapshotDoc(ids[i])]

\* An invocation slot: `todo` holds the documents of the page that the for loop
\* has not finished, the first being the one in processTweetDocument.
IdleSweep == [pc |-> "idle", todo |-> <<>>, err |-> Null]

CurDoc(s) == Head(sweep[s].todo)
Cur(s) == CurDoc(s).id

\* A loop that starts over on the item it has just finished.
NextItemSame(sw) == [pc |-> "lock", todo |-> sw.todo, err |-> Null]

\* for (const doc of dueTweetsSnapshot.docs): the item is finished, go on; after
\* the last one the invocation returns.
NextItem(sw) ==
  IF Len(sw.todo) > 1
  THEN [pc |-> "lock", todo |-> Tail(sw.todo), err |-> Null]
  ELSE IdleSweep

\* The attempts whose lock transaction on t is in flight.
SweepsInLock(t) == {s \in Sweeps : sweep[s].pc = "lock" /\ Cur(s) = t}
CallsInLock(t) == {c \in Calls : call[c].pc = "lock" /\ call[c].tweetId = t}
InLock(t) ==
  {<<"sweep", s>> : s \in SweepsInLock(t)} \cup {<<"call", c>> : c \in CallsInLock(t)}

\* Recorded when attempt w commits the lock on t.
Contend(t, w) ==
  LET losers == IF tweets[t].status = "scheduled" THEN InLock(t) ELSE {}
  IN [contenders EXCEPT ![t] =
        [waiting |-> (@.waiting \cup losers) \ {w},
         acquired |-> @.acquired \/ w \in @.waiting]]

\* Recorded when the lock transaction of attempt w on t ends without the lock.
Withdraw(t, w) == [contenders EXCEPT ![t].waiting = @ \ {w}]

\* processScheduledTweets up to the first processTweetDocument call; with an
\* empty page the invocation returns at once. Slot s is taken while slot s - 1
\* is busy.
SweepQuery(s) ==
  /\ sweep[s].pc = "idle"
  /\ s > 1 => sweep[s - 1].pc # "idle"
  /\ LET page == QueryDueTweets(clock)
     IN /\ Len(page) > 0
        /\ sweep' = [sweep EXCEPT ![s] = [pc |-> "lock", todo |-> page, err |-> Null]]
  /\ UNCHANGED <<tweets, clock, call, posts, contenders, uiStatus, isEditing, writes, attempt,
               slotCall, board, bulk, legacy>>

\* The query's page when a page holds PageSize documents.
QueryDuePage(now) ==
  LET ids == Limit(OrderByScheduledFor(DueTweets(now)), PageSize)
  IN [i \in 1..Len(ids) |-> QuerySnapshotDoc(ids[i])]

\* processScheduledTweets up to the first processTweetDocument call, with
\* pages of PageSize documents.
SweepQueryPage(s) ==
  /\ sweep[s].pc = "idle"
  /\ s > 1 => sweep[s - 1].pc # "idle"
  /\ LET page == QueryDuePage(clock)
     IN /\ Len(page) > 0
        /\ sweep' = [sweep EXCEPT ![s] = [pc |-> "lock", todo |-> page, err |-> Null]]
  /\ UNCHANGED <<tweets, clock, call, posts, contenders, uiStatus, isEditing, writes, attempt,
               slotCall, board, bulk, legacy>>

\* A transaction that never returns false.
SweepLockRefusedNever(status) == FALSE

\* A transaction that returns false for `posted` only.
SweepLockRefusedPostedOnly(status) == status = "posted"

\* if (currentStatus === 'processing' || currentStatus === 'posted') return false
SweepLockRefused(status) == status \in {"processing", "posted"}

\* The lock transaction of processTweetDocument. A transaction the store
\* rejects, or the update of a document that is gone, throws out of
\* processTweetDocument and out of the for loop: the invocation ends.
SweepLock(s) ==
  /\ sweep[s].pc = "lock"
  /\ LET t == Cur(s)
     IN \E rejected \in BOOLEAN :
          IF rejected \/ ~tweets[t].exists
          THEN /\ sweep' = [sweep EXCEPT ![s] = IdleSweep]
               /\ contenders' = Withdraw(t, <<"sweep", s>>)
               /\ UNCHANGED tweets
          ELSE IF SweepLockRefused(tweets[t].status)
          THEN /\ sweep' = [sweep EXCEPT ![s] = NextItem(@)]
               /\ contenders' = Withdraw(t, <<"sweep", s>>)
               /\ UNCHANGED tweets
          ELSE /\ tweets' = [tweets EXCEPT ![t] = LockUpdate(@)]
               /\ contenders' = Contend(t, <<"sweep", s>>)
               /\ sweep' = [sweep EXCEPT ![s].pc = "publish"]
  /\ UNCHANGED <<clock, call, posts, uiStatus, isEditing, writes, attempt,
               slotCall, board, bulk, legacy>>

\* Credential checks that do not compare the account's owner.
SweepCredentialErrorOwnerUnchecked(account, data, clientOk) ==
  IF ~account.found THEN MsgNoAccount
  ELSE IF ~clientOk THEN MsgClient
  ELSE Null

\* Lines 206-225: the lastError the sweep writes, or Null.
SweepCredentialError(account, data, clientOk) ==
  IF ~account.found THEN MsgNoAccount
  ELSE IF account.ownerUid # data.authorUid THEN MsgNoPermission
  ELSE IF ~clientOk THEN MsgClient
  ELSE Null

\* Lines 206-233 up to the terminal write.
SweepAttempt(account, data, clientOk, uploadOk, postOk) ==
  LET err == SweepCredentialError(account, data, clientOk)
  IN IF err # Null THEN [err |-> err, posted |-> FALSE]
     ELSE publishTweetWithClient(uploadOk, postOk)

\* The attempt between its lock and its terminal write: it reads the account
\* document and calls storage and the provider, and touches no tweet document.
SweepPublish(s) ==
  /\ sweep[s].pc = "publish"
  /\ \E acct \in AccountDocs, clientOk \in BOOLEAN, uploadOk \in BOOLEAN,
        postOk \in BOOLEAN :
       LET out == SweepAttempt(fetchTwitterAccountCredentials(acct),
                               CurDoc(s).data, clientOk, uploadOk, postOk)
       IN /\ out.posted => posts[Cur(s)] < MaxPosts
          /\ posts' = IF out.posted THEN [posts EXCEPT ![Cur(s)] = @ + 1] ELSE posts
          /\ sweep' = [sweep EXCEPT ![s] =
               IF out.posted THEN [@ EXCEPT !.pc = "markPosted"]
               ELSE [@ EXCEPT !.pc = "markFailure", !.err = out.err]]
  /\ UNCHANGED <<tweets, clock, call, contenders, uiStatus, isEditing, writes, attempt,
               slotCall, board, bulk, legacy>>

\* await markTweetPosted(tweetRef); a throw lands in the catch of line 229.
SweepMarkPosted(s) ==
  /\ sweep[s].pc = "markPosted"
  /\ LET t == Cur(s)
     IN \E storeOk \in BOOLEAN :
          IF UpdateApplies(tweets[t], storeOk)
          THEN /\ tweets' = [tweets EXCEPT ![t] = markTweetPosted(@)]
               /\ sweep' = [sweep EXCEPT ![s] = NextItem(@)]
          ELSE /\ sweep' = [sweep EXCEPT ![s].pc = "markFailure", ![s].err = MsgStore]
               /\ UNCHANGED tweets
  /\ UNCHANGED <<clock, call, posts, contenders, uiStatus, isEditing, writes, attempt,
               slotCall, board, bulk, legacy>>

\* await markTweetFailure(tweetRef, message); return. A throw of the update
\* itself is caught nowhere and ends the invocation.
SweepMarkFailure(s) ==
  /\ sweep[s].pc = "markFailure"
  /\ LET t == Cur(s)
     IN \E storeOk \in BOOLEAN :
          IF UpdateApplies(tweets[t], storeOk)
          THEN /\ tweets' = [tweets EXCEPT ![t] = markTweetFailure(@, sweep[s].err)]
               /\ sweep' = [sweep EXCEPT ![s] = NextItem(@)]
          ELSE /\ sweep' = [sweep EXCEPT ![s] = IdleSweep]
               /\ UNCHANGED tweets
  /\ UNCHANGED <<clock, call, posts, contenders, uiStatus, isEditing, writes, attempt,
               slotCall, board, bulk, legacy>>

(* ------------------------- publishTweetNow ----------------------------- *)

\* data.tweetId after trim() is empty.
EmptyId == 0

IdleCall ==
  [pc |-> "idle", auth |-> Null, tweetId |-> EmptyId, result |-> NoError,
   err |-> NoError]

\* The call has answered: its slot keeps the response.
Responded(result) == [IdleCall EXCEPT !.pc = "done", !.result = result]

\* Lines 239-246: the checks made before the transaction is opened.
ManualValidationError(auth, tweetId) ==
  IF auth = Null THEN HttpsError("unauthenticated", "Authentication is required.")
  ELSE IF tweetId = EmptyId THEN HttpsError("invalid-argument", "Tweet ID is required.")
  ELSE NoError

\* The callable is invoked with context.auth and data.tweetId. Slot c is taken
\* while slot c - 1 is busy.
ManualCall(c) ==
  /\ call[c].pc \in {"idle", "done"}
  /\ c > 1 => call[c - 1].pc \notin {"idle", "done"}
  /\ \E auth \in {Null} \cup Uids, tweetId \in {EmptyId} \cup TweetIds :
       LET err == ManualValidationError(auth, tweetId)
       IN call' = [call EXCEPT ![c] =
            IF err = NoError
            THEN [IdleCall EXCEPT !.pc = "lock", !.auth = auth, !.tweetId = tweetId]
            ELSE Responded(err)]
  /\ UNCHANGED <<tweets, clock, sweep, posts, contenders, uiStatus, isEditing, writes, attempt,
               slotCall, board, bulk, legacy>>

\* The transaction body without its test for `posted`.
ManualTxnErrorPostedAdmitted(doc, uid) ==
  IF ~doc.exists THEN HttpsError("not-found", "Tweet not found.")
  ELSE IF doc.authorUid # uid
    THEN HttpsError("permission-denied", "You do not have access to this tweet.")
  ELSE IF doc.status = "processing"
    THEN HttpsError("failed-precondition", "Tweet is already being processed.")
  ELSE IF doc.status = "draft"
    THEN HttpsError("failed-precondition", "Draft tweets cannot be published.")
  ELSE IF doc.status \notin {"manual", "posted"}
    THEN HttpsError("failed-precondition",
                    "Tweet must be marked as manual before publishing.")
  ELSE NoError

\* The transaction body with `failed` admitted like `manual`.
ManualTxnErrorFailedAdmitted(doc, uid) ==
  IF ~doc.exists THEN HttpsError("not-found", "Tweet not found.")
  ELSE IF doc.authorUid # uid
    THEN HttpsError("permission-denied", "You do not have access to this tweet.")
  ELSE IF doc.status = "processing"
    THEN HttpsError("failed-precondition", "Tweet is already being processed.")
  ELSE IF doc.status = "posted"
    THEN HttpsError("failed-precondition", "Tweet has already been posted.")
  ELSE IF doc.status = "draft"
    THEN HttpsError("failed-precondition", "Draft tweets cannot be published.")
  ELSE IF doc.status \notin {"manual", "failed"}
    THEN HttpsError("failed-precondition",
                    "Tweet must be marked as manual before publishing.")
  ELSE NoError

\* The transaction body without its last test, the one for `manual`.
ManualTxnErrorAnyStatus(doc, uid) ==
  IF ~doc.exists THEN HttpsError("not-found", "Tweet not found.")
  ELSE IF doc.authorUid # uid
    THEN HttpsError("permission-denied", "You do not have access to this tweet.")
  ELSE IF doc.status = "processing"
    THEN HttpsError("failed-precondition", "Tweet is already being processed.")
  ELSE IF doc.status = "posted"
    THEN HttpsError("failed-precondition", "Tweet has already been posted.")
  ELSE IF doc.status = "draft"
    THEN HttpsError("failed-precondition", "Draft tweets cannot be published.")
  ELSE NoError

\* The transaction body with its status tests ahead of its ownership test.
ManualTxnErrorStatusFirst(doc, uid) ==
  IF ~doc.exists THEN HttpsError("not-found", "Tweet not found.")
  ELSE IF doc.status = "processing"
    THEN HttpsError("failed-precondition", "Tweet is already being processed.")
  ELSE IF doc.status = "posted"
    THEN HttpsError("failed-precondition", "Tweet has already been posted.")
  ELSE IF doc.authorUid # uid
    THEN HttpsError("permission-denied", "You do not have access to this tweet.")
  ELSE IF doc.status = "draft"
    THEN HttpsError("failed-precondition", "Draft tweets cannot be published.")
  ELSE IF doc.status # "manual"
    THEN HttpsError("failed-precondition",
                    "Tweet must be marked as manual before publishing.")
  ELSE NoError

\* Lines 253-277: what the transaction body throws for the document it read.
ManualTxnError(doc, uid) ==
  IF ~doc.exists THEN HttpsError("not-found", "Tweet not found.")
  ELSE IF doc.authorUid # uid
    THEN HttpsError("permission-denied", "You do not have access to this tweet.")
  ELSE IF doc.status = "processing"
    THEN HttpsError("failed-precondition", "Tweet is already being processed.")
  ELSE IF doc.status = "posted"
    THEN HttpsError("failed-precondition", "Tweet has already been posted.")
  ELSE IF doc.status = "draft"
    THEN HttpsError("failed-precondition", "Draft tweets cannot be published.")
  ELSE IF doc.status # "manual"
    THEN HttpsError("failed-precondition",
                    "Tweet must be marked as manual before publishing.")
  ELSE NoError

\* A transaction that writes the lock whatever its body threw.
ManualTxnWriteAlways(doc, err) == LockUpdate(doc)

\* Lines 279-285: the document the transaction leaves behind.
ManualTxnWrite(doc, err) == IF err = NoError THEN LockUpdate(doc) ELSE doc

\* Lines 251-294: the lock transaction and its catch. A transaction the store
\* rejects surfaces as `internal`.
ManualLock(c) ==
  /\ call[c].pc = "lock"
  /\ LET t == call[c].tweetId
     IN \E rejected \in BOOLEAN :
          IF rejected
          THEN /\ call' = [call EXCEPT ![c] = Responded(HttpsError("internal", MsgPrepare))]
               /\ contenders' = Withdraw(t, <<"call", c>>)
               /\ UNCHANGED tweets
          ELSE LET err == ManualTxnError(tweets[t], call[c].auth)
               IN /\ tweets' = [tweets EXCEPT ![t] = ManualTxnWrite(@, err)]
                  /\ IF err = NoError
                     THEN /\ call' = [call EXCEPT ![c].pc = "publish"]
                          /\ contenders' = Contend(t, <<"call", c>>)
                     ELSE /\ call' = [call EXCEPT ![c] = Responded(err)]
                          /\ contenders' = Withdraw(t, <<"call", c>>)
  /\ UNCHANGED <<clock, sweep, posts, uiStatus, isEditing, writes, attempt,
               slotCall, board, bulk, legacy>>

\* Credential checks that report every failure as `internal`.
ManualCredentialErrorAllInternal(account, uid, clientOk) ==
  IF ~account.found THEN HttpsError("internal", MsgNoAccount)
  ELSE IF account.ownerUid # uid THEN HttpsError("internal", MsgNoPermission)
  ELSE IF ~clientOk THEN HttpsError("internal", MsgClient)
  ELSE NoError

\* Lines 296-315: the error thrown after markTweetFailure, or NoError.
ManualCredentialError(account, uid, clientOk) ==
  IF ~account.found THEN HttpsError("failed-precondition", MsgNoAccount)
  ELSE IF account.ownerUid # uid THEN HttpsError("permission-denied", MsgNoPermission)
  ELSE IF ~clientOk THEN HttpsError("internal", MsgClient)
  ELSE NoError

\* Lines 317-325: the catch around publishTweetWithClient.
ManualPublishError(out) ==
  IF out.err = Null THEN NoError ELSE HttpsError("internal", out.err)

\* Lines 296-325 up to the terminal write.
ManualAttempt(account, uid, clientOk, uploadOk, postOk) ==
  LET err == ManualCredentialError(account, uid, clientOk)
      out == publishTweetWithClient(uploadOk, postOk)
  IN IF err # NoError THEN [err |-> err, posted |-> FALSE]
     ELSE [err |-> ManualPublishError(out), posted |-> out.posted]

\* The attempt between its lock and its terminal write.
ManualPublish(c) ==
  /\ call[c].pc = "publish"
  /\ \E acct \in AccountDocs, clientOk \in BOOLEAN, uploadOk \in BOOLEAN,
        postOk \in BOOLEAN :
       LET t == call[c].tweetId
           out == ManualAttempt(fetchTwitterAccountCredentials(acct), call[c].auth,
                                clientOk, uploadOk, postOk)
       IN /\ out.posted => posts[t] < MaxPosts
          /\ posts' = IF out.posted THEN [posts EXCEPT ![t] = @ + 1] ELSE posts
          /\ call' = [call EXCEPT ![c] =
               IF out.posted THEN [@ EXCEPT !.pc = "markPosted"]
               ELSE [@ EXCEPT !.pc = "markFailure", !.err = out.err]]
  /\ UNCHANGED <<tweets, clock, sweep, contenders, uiStatus, isEditing, writes, attempt,
               slotCall, board, bulk, legacy>>

\* await markTweetPosted(tweetRef); return { success: true }. A throw lands in
\* the catch of line 320.
ManualMarkPosted(c) ==
  /\ call[c].pc = "markPosted"
  /\ LET t == call[c].tweetId
     IN \E storeOk \in BOOLEAN :
          IF UpdateApplies(tweets[t], storeOk)
          THEN /\ tweets' = [tweets EXCEPT ![t] = markTweetPosted(@)]
               /\ call' = [call EXCEPT ![c] = Responded(Success)]
          ELSE /\ call' = [call EXCEPT ![c].pc = "markFailure",
                                       ![c].err = HttpsError("internal", MsgStore)]
               /\ UNCHANGED tweets
  /\ UNCHANGED <<clock, sweep, posts, contenders, uiStatus, isEditing, writes, attempt,
               slotCall, board, bulk, legacy>>

\* What the caller receives when markTweetFailure itself throws: the callable
\* wrapper turns an error that is no HttpsError into `internal`.
Unhandled == HttpsError("internal", "INTERNAL")

\* await markTweetFailure(tweetRef, message); throw new HttpsError(code, message).
ManualMarkFailure(c) ==
  /\ call[c].pc = "markFailure"
  /\ LET t == call[c].tweetId
     IN \E storeOk \in BOOLEAN :
          IF UpdateApplies(tweets[t], storeOk)
          THEN /\ tweets' = [tweets EXCEPT ![t] = markTweetFailure(@, call[c].err.message)]
               /\ call' = [call EXCEPT ![c] = Responded(call[c].err)]
          ELSE /\ call' = [call EXCEPT ![c] = Responded(Unhandled)]
               /\ UNCHANGED tweets
  /\ UNCHANGED <<clock, sweep, posts, contenders, uiStatus, isEditing, writes, attempt,
               slotCall, board, bulk, legacy>>

\* The function instance running invocation s stops (crash, timeout, kill)
\* between the lock transaction and the terminal write: nothing it has not
\* written yet is written.
SweepStops(s) ==
  /\ sweep[s].pc \in {"publish", "markPosted", "markFailure"}
  /\ sweep' = [sweep EXCEPT ![s].pc = "stopped"]
  /\ UNCHANGED <<tweets, clock, call, posts, contenders, uiStatus, isEditing, writes,
                 attempt, slotCall, board, bulk, legacy>>

\* The same for the instance running publishTweetNow call c: the caller gets
\* no answer.
ManualStops(c) ==
  /\ call[c].pc \in {"publish", "markPosted", "markFailure"}
  /\ call' = [call EXCEPT ![c].pc = "stopped"]
  /\ UNCHANGED <<tweets, clock, sweep, posts, contenders, uiStatus, isEditing, writes,
                 attempt, slotCall, board, bulk, legacy>>

(* --------------------------- the dashboard ----------------------------- *)

\* The onSnapshot listener of subscribeToTweets delivers the documents as the
\* server holds them; setTweets makes them the cards' props.
SnapshotDelivered ==
  /\ uiStatus # [t \in TweetIds |-> tweets[t].status]
  /\ uiStatus' = [t \in TweetIds |-> tweets[t].status]
  /\ UNCHANGED <<tweets, clock, sweep, call, posts, contenders, isEditing, writes, attempt,
               slotCall, board, bulk, legacy>>

Has(updates, f) == f \in DOMAIN updates

\* tweetService.updateTweet: the payload applied by updateDoc.
updateTweet(doc, updates) ==
  LET stamped == [doc EXCEPT !.lastUpdatedAt = "updateTweet"]
      timed == IF Has(updates, "scheduledFor")
               THEN [stamped EXCEPT !.scheduledFor = updates.scheduledFor]
               ELSE stamped
      stated == IF Has(updates, "status")
                THEN [timed EXCEPT !.status = updates.status]
                ELSE timed
      texted == IF Has(updates, "text")
                THEN [stated EXCEPT !.text = updates.text]
                ELSE stated
      errored == IF Has(updates, "lastError")
                 THEN [texted EXCEPT !.lastError = updates.lastError]
                 ELSE texted
  IN IF Has(updates, "postedAt")
     THEN [errored EXCEPT !.postedAt = updates.postedAt]
     ELSE errored

\* updateDoc rejects when the document does not exist.
UpdateDoc(store, t, updates) ==
  IF store[t].exists THEN [store EXCEPT ![t] = updateTweet(@, updates)] ELSE store

\* DashboardPage.handleUpdateStatus
handleUpdateStatus(store, t, status) ==
  UpdateDoc(store, t,
            [status |-> status,
             postedAt |-> IF status = "posted" THEN "client" ELSE Null])

\* The card shows its action buttons when it is mounted and not in edit mode.
\* Only the dashboard creates and deletes documents, so the list of cards is
\* the list of documents.
CardButtons(t) == tweets[t].exists /\ ~isEditing[t]

\* The dashboard issues one more write.
Write ==
  /\ writes < MaxWrites
  /\ writes' = writes + 1

\* A status button was clicked: the write goes to the server, and the local
\* cache (hence the card) shows it at once.
StatusClick(t, status) ==
  /\ Write
  /\ tweets' = handleUpdateStatus(tweets, t, status)
  /\ uiStatus' = [uiStatus EXCEPT ![t] = status]
  /\ UNCHANGED <<clock, sweep, call, posts, contenders, isEditing, attempt,
               slotCall, board, bulk, legacy>>

\* "Manual only" / "Automate": disabled={isProcessing || isPublishing || isPosted}
handleToggleManual(t) ==
  /\ CardButtons(t)
  /\ uiStatus[t] \notin {"processing", "posted"}
  /\ StatusClick(t, IF uiStatus[t] = "manual" THEN "scheduled" ELSE "manual")

\* "Queue": disabled={isQueued || isProcessing || isPosted || isManual}
QueueClicked(t) ==
  /\ CardButtons(t)
  /\ uiStatus[t] \notin {"queued", "processing", "posted", "manual"}
  /\ StatusClick(t, "queued")

\* "Mark posted": disabled={isPosted || isProcessing}
MarkPostedClicked(t) ==
  /\ CardButtons(t)
  /\ uiStatus[t] \notin {"posted", "processing"}
  /\ StatusClick(t, "posted")

\* "Delete": disabled={isProcessing}; DashboardPage.handleDelete -> deleteDoc
handleDelete(t) ==
  /\ CardButtons(t)
  /\ uiStatus[t] # "processing"
  /\ Write
  /\ tweets' = [tweets EXCEPT ![t] = NoDoc]
  /\ uiStatus' = [uiStatus EXCEPT ![t] = Null]
  /\ UNCHANGED <<clock, sweep, call, posts, contenders, isEditing, attempt,
               slotCall, board, bulk, legacy>>

\* "Edit": disabled={isProcessing}
handleStartEdit(t) ==
  /\ CardButtons(t)
  /\ uiStatus[t] # "processing"
  /\ isEditing' = [isEditing EXCEPT ![t] = TRUE]
  /\ UNCHANGED <<tweets, clock, sweep, call, posts, contenders, uiStatus, writes, attempt,
               slotCall, board, bulk, legacy>>

\* "Save changes": disabled={isSaving}. handleSave -> handleEditTweet ->
\* updateTweet(id, {text, media}); then the form closes.
handleSave(t) ==
  /\ tweets[t].exists
  /\ isEditing[t]
  /\ Write
  /\ \E text \in Texts : tweets' = UpdateDoc(tweets, t, [text |-> text])
  /\ isEditing' = [isEditing EXCEPT ![t] = FALSE]
  /\ UNCHANGED <<clock, sweep, call, posts, contenders, uiStatus, attempt,
               slotCall, board, bulk, legacy>>

\* The list the dashboard renders: the tweets, scheduledFor ascending.
TweetList == OrderByScheduledFor({t \in TweetIds : tweets[t].exists})

\* dnd-kit arrayMove(list, from, to)
Without(seq, i) == SubSeq(seq, 1, i - 1) \o SubSeq(seq, i + 1, Len(seq))
arrayMove(seq, from, to) ==
  LET rest == Without(seq, from)
  IN SubSeq(rest, 1, to - 1) \o <<seq[from]>> \o SubSeq(rest, to, Len(rest))

\* DashboardPage.handleReorder: the i-th card takes the i-th smallest time;
\* every card whose time changes is written.
RECURSIVE ApplyReorder(_, _, _, _)
ApplyReorder(store, ordered, sortedTimes, i) ==
  IF i > Len(ordered) THEN store
  ELSE LET t == ordered[i]
           next == IF tweets[t].scheduledFor = sortedTimes[i]
                   THEN store
                   ELSE UpdateDoc(store, t, [scheduledFor |-> sortedTimes[i]])
       IN ApplyReorder(next, ordered, sortedTimes, i + 1)

\* TweetList.handleDragEnd: a card (its handle is disabled only in edit mode)
\* is dropped on another card.
handleReorder ==
  LET list == TweetList
      times == [i \in 1..Len(list) |-> tweets[list[i]].scheduledFor]
  IN /\ Len(list) > 1
     /\ Write
     /\ \E from \in 1..Len(list), to \in 1..Len(list) :
          /\ from # to
          /\ ~isEditing[list[from]]
          /\ tweets' = ApplyReorder(tweets, arrayMove(list, from, to), times, 1)
     /\ UNCHANGED <<clock, sweep, call, posts, contenders, uiStatus, isEditing, attempt,
               slotCall, board, bulk, legacy>>

\* Timestamp.now() advances.
Tick ==
  /\ clock < MaxClock
  /\ clock' = clock + 1
  /\ UNCHANGED <<tweets, sweep, call, posts, contenders, uiStatus, isEditing, writes, attempt,
               slotCall, board, bulk, legacy>>

(* ------------------- one attempt, await by await ----------------------- *)

\* storagePath of the attachment at each position of doc.data().media.
StoragePaths == <<"m1", "m2", "m3", "m4", "m5", "m6">>

\* A TweetMediaDoc; a missing storagePath or contentType is Null.
MediaItems(i) ==
  {[storagePath |-> StoragePaths[i], contentType |-> "image/png"],
   [storagePath |-> Null, contentType |-> "image/png"],
   [storagePath |-> StoragePaths[i], contentType |-> Null]}

\* The values of doc.data().media with n attachments.
MediaOfLength(n) ==
  {m \in [1..n -> UNION {MediaItems(i) : i \in 1..n}] :
     \A i \in 1..n : m[i] \in MediaItems(i)}

MediaLists == UNION {MediaOfLength(n) : n \in 0..MaxMedia}

\* The id client.v1.uploadMedia returns for the bytes stored at a path.
MediaId(path) == <<"media_id", path>>

MsgMissingField == "Media attachment missing storage path or content type."
MsgArity == "Media IDs must contain between 1 and 4 items."

\* The position of a path in StoragePaths.
PathIndex(path) == CHOOSE i \in 1..Len(StoragePaths) : StoragePaths[i] = path

\* `Media file not found at path ${storagePath}`
MsgNotFound(path) ==
  <<"Media file not found at path m1", "Media file not found at path m2",
    "Media file not found at path m3", "Media file not found at path m4",
    "Media file not found at path m5", "Media file not found at path m6">>[PathIndex(path)]

\* error.message of a client.v1.uploadMedia that throws.
MsgRejected == "media upload rejected"

\* `Unable to upload media ${item.storagePath}: ${message}`
UploadCatch(path, message) ==
  IF message = MsgRejected
  THEN <<"Unable to upload media m1: media upload rejected",
         "Unable to upload media m2: media upload rejected",
         "Unable to upload media m3: media upload rejected",
         "Unable to upload media m4: media upload rejected",
         "Unable to upload media m5: media upload rejected",
         "Unable to upload media m6: media upload rejected">>[PathIndex(path)]
  ELSE <<"Unable to upload media m1: Media file not found at path m1",
         "Unable to upload media m2: Media file not found at path m2",
         "Unable to upload media m3: Media file not found at path m3",
         "Unable to upload media m4: Media file not found at path m4",
         "Unable to upload media m5: Media file not found at path m5",
         "Unable to upload media m6: Media file not found at path m6">>[PathIndex(path)]

\* A media.slice that keeps every attachment.
AttachmentsUnsliced(media) == media

\* const attachments = media.slice(0, 4)
Attachments(media) == IF Len(media) <= 4 THEN media ELSE SubSeq(media, 1, 4)

\* if (!item?.storagePath || !item.contentType) throw
MissingField(item) == item.storagePath = Null \/ item.contentType = Null

\* A download that hands back a buffer whether or not the file exists.
downloadMediaFromStorageUnchecked(path, exists) == Null

\* downloadMediaFromStorage: the message it throws, or Null.
downloadMediaFromStorage(path, exists) ==
  IF ~exists THEN MsgNotFound(path) ELSE Null

\* A push at the front of mediaIds.
PushMediaIdFirst(mediaIds, mediaId) == <<mediaId>> \o mediaIds

\* mediaIds.push(mediaId)
PushMediaId(mediaIds, mediaId) == Append(mediaIds, mediaId)

\* toMediaIdTuple: the tuple, or Null where it throws.
toMediaIdTuple(mediaIds) ==
  CASE Len(mediaIds) = 1 -> <<mediaIds[1]>>
    [] Len(mediaIds) = 2 -> <<mediaIds[1], mediaIds[2]>>
    [] Len(mediaIds) = 3 -> <<mediaIds[1], mediaIds[2], mediaIds[3]>>
    [] Len(mediaIds) = 4 -> <<mediaIds[1], mediaIds[2], mediaIds[3], mediaIds[4]>>
    [] OTHER -> Null

\* The argument of client.v2.tweet; NoPayload while it was not called.
NoPayload == [text |-> Null, media_ids |-> <<>>]
TextOnly(text) == [text |-> text, media_ids |-> <<>>]
WithMedia(text, tuple) == [text |-> text, media_ids |-> tuple]

\* The tweet the attempt holds, and its doc.data().
AttemptTweet == 1
AttemptData == [authorUid |-> tweets[AttemptTweet].authorUid,
                text |-> tweets[AttemptTweet].text]

\* No attempt is followed.
IdleAttempt ==
  [pc |-> "idle", media |-> <<>>, account |-> NullAccount, i |-> 1,
   mediaIds |-> <<>>, log |-> <<>>, payload |-> NoPayload, err |-> Null]

\* The attempt throws: the catch, or the if, goes to markTweetFailure.
Throw(at, message) == [at EXCEPT !.pc = "markFailure", !.err = message]


\* Lines 206-225: the account is read and the client is built.
AttemptCredentials ==
  /\ attempt.pc = "credentials"
  /\ \E acct \in AccountDocs, clientOk \in BOOLEAN :
       LET account == fetchTwitterAccountCredentials(acct)
           err == SweepCredentialError(account, AttemptData, clientOk)
           read == [attempt EXCEPT !.account = account]
       IN attempt' = IF err # Null THEN Throw(read, err)
                     ELSE [read EXCEPT !.pc = "upload"]
  /\ UNCHANGED <<tweets, clock, sweep, call, posts, contenders, uiStatus,
                 isEditing, writes,
               slotCall, board, bulk, legacy>>

\* uploadMediaAttachments, lines 89-99: the head of the for loop.
UploadLoop ==
  /\ attempt.pc = "upload"
  /\ LET attachments == Attachments(attempt.media)
     IN attempt' =
          IF attempt.i > Len(attachments) THEN [attempt EXCEPT !.pc = "post"]
          ELSE IF MissingField(attachments[attempt.i])
          THEN Throw([attempt EXCEPT !.log = Append(@, <<"invalid", attempt.i>>)],
                     MsgMissingField)
          ELSE [attempt EXCEPT !.pc = "download",
                               !.log = Append(@, <<"start", attempt.i>>)]
  /\ UNCHANGED <<tweets, clock, sweep, call, posts, contenders, uiStatus,
                 isEditing, writes,
               slotCall, board, bulk, legacy>>

\* await downloadMediaFromStorage(item.storagePath), and the catch of line 106.
UploadDownload ==
  /\ attempt.pc = "download"
  /\ \E exists \in BOOLEAN :
       LET path == Attachments(attempt.media)[attempt.i].storagePath
           message == downloadMediaFromStorage(path, exists)
           logged == [attempt EXCEPT !.log =
                        IF exists THEN @ ELSE Append(@, <<"missing", attempt.i>>)]
       IN attempt' = IF message # Null THEN Throw(logged, UploadCatch(path, message))
                     ELSE [logged EXCEPT !.pc = "uploadMedia"]
  /\ UNCHANGED <<tweets, clock, sweep, call, posts, contenders, uiStatus,
                 isEditing, writes,
               slotCall, board, bulk, legacy>>

\* await client.v1.uploadMedia(buffer, ...); mediaIds.push(mediaId), and the
\* catch of line 106.
UploadToProvider ==
  /\ attempt.pc = "uploadMedia"
  /\ \E accepted \in BOOLEAN :
       LET path == Attachments(attempt.media)[attempt.i].storagePath
       IN attempt' =
            IF accepted
            THEN [attempt EXCEPT !.pc = "upload", !.i = @ + 1,
                                 !.mediaIds = PushMediaId(@, MediaId(path)),
                                 !.log = Append(@, <<"return", attempt.i>>)]
            ELSE Throw([attempt EXCEPT !.log = Append(@, <<"rejected", attempt.i>>)],
                       UploadCatch(path, MsgRejected))
  /\ UNCHANGED <<tweets, clock, sweep, call, posts, contenders, uiStatus,
                 isEditing, writes,
               slotCall, board, bulk, legacy>>

\* publishTweetWithClient, lines 137-148: the post call.
AttemptPost ==
  /\ attempt.pc = "post"
  /\ LET tuple == toMediaIdTuple(attempt.mediaIds)
         payload == IF Len(attempt.mediaIds) > 0
                    THEN WithMedia(AttemptData.text, tuple)
                    ELSE TextOnly(AttemptData.text)
     IN IF Len(attempt.mediaIds) > 0 /\ tuple = Null
        THEN /\ attempt' = Throw(attempt, MsgArity)
             /\ UNCHANGED posts
        ELSE \E postOk \in BOOLEAN :
               /\ attempt' = IF postOk
                             THEN [attempt EXCEPT !.pc = "markPosted", !.payload = payload]
                             ELSE Throw([attempt EXCEPT !.payload = payload], MsgPost)
               /\ posts' = IF postOk THEN [posts EXCEPT ![AttemptTweet] = @ + 1]
                           ELSE posts
  /\ UNCHANGED <<tweets, clock, sweep, call, contenders, uiStatus, isEditing, writes,
               slotCall, board, bulk, legacy>>

\* await markTweetPosted(tweetRef); a throw lands in the catch of line 229.
AttemptMarkPosted ==
  /\ attempt.pc = "markPosted"
  /\ \E storeOk \in BOOLEAN :
       IF UpdateApplies(tweets[AttemptTweet], storeOk)
       THEN /\ tweets' = [tweets EXCEPT ![AttemptTweet] = markTweetPosted(@)]
            /\ attempt' = [attempt EXCEPT !.pc = "done"]
       ELSE /\ attempt' = Throw(attempt, MsgStore)
            /\ UNCHANGED tweets
  /\ UNCHANGED <<clock, sweep, call, posts, contenders, uiStatus, isEditing, writes,
               slotCall, board, bulk, legacy>>

\* await markTweetFailure(tweetRef, message); return. A throw of the update
\* itself leaves processTweetDocument as an exception.
AttemptMarkFailure ==
  /\ attempt.pc = "markFailure"
  /\ \E storeOk \in BOOLEAN :
       IF UpdateApplies(tweets[AttemptTweet], storeOk)
       THEN /\ tweets' = [tweets EXCEPT ![AttemptTweet] = markTweetFailure(@, attempt.err)]
            /\ attempt' = [attempt EXCEPT !.pc = "done"]
       ELSE /\ attempt' = [attempt EXCEPT !.pc = "thrown"]
            /\ UNCHANGED tweets
  /\ UNCHANGED <<clock, sweep, call, posts, contenders, uiStatus, isEditing, writes,
               slotCall, board, bulk, legacy>>

(* ------------------------- the schedule grid --------------------------- *)

\* A Date is its number of milliseconds since 00:00 UTC of day 0.
MsPerMinute == 60 * 1000
MsPerHour == 60 * MsPerMinute
MsPerDay == 24 * MsPerHour

\* TIMEZONE = 'Asia/Dubai': UTC+04:00 all year.
TIMEZONE == 4 * MsPerHour

\* The same hours, latest first.
SlotHoursDescending == [index \in 1..16 |-> 20 - index]

\* SLOT_HOURS = Array.from({ length: 16 }, (_, index) => index + 4)
SLOT_HOURS == [index \in 1..16 |-> (index - 1) + 4]

\* toZonedTime(date, TIMEZONE): the Date whose fields read the zone's wall clock.
toZonedTime(date) == date + TIMEZONE

\* fromZonedTime(local, TIMEZONE): the instant at which the zone's wall clock
\* reads the fields of `local`.
fromZonedTime(local) == local - TIMEZONE

\* startOfDay(date): the fields' day at 00:00:00.000.
startOfDay(date) == date - (date % MsPerDay)

\* addDays(date, amount)
addDays(date, amount) == date + amount * MsPerDay

\* set(date, { hours, minutes: 0, seconds: 0, milliseconds: 0 })
set(date, hours) == startOfDay(date) + hours * MsPerHour

\* formatInTimeZone(date, TIMEZONE, "yyyy-MM-dd HH:mm"): the zone's calendar
\* day, hour and minute of the instant; seconds and milliseconds are dropped.
formatInTimeZone(date) ==
  LET local == date + TIMEZONE
  IN <<local \div MsPerDay,
       (local % MsPerDay) \div MsPerHour,
       (local % MsPerHour) \div MsPerMinute>>

\* No key is taken, whatever the tweets.
getTakenSlotKeysNone(scheduled) == {}

\* getTakenSlotKeys(tweets); `scheduled` is the set of the tweets' scheduledFor.
getTakenSlotKeys(scheduled) == {formatInTimeZone(at) : at \in scheduled}

\* slotUtc of the loops' body for one dayOffset and one index into SLOT_HOURS.
SlotUtc(baseDay, dayOffset, index) ==
  fromZonedTime(set(addDays(baseDay, dayOffset), SLOT_HOURS[index]))

\* if (slotUtc <= now) continue, with the comparison the other way round.
SlotSkippedBefore(slotUtc, now) == slotUtc < now

\* if (slotUtc <= now) continue
SlotSkipped(slotUtc, now) == slotUtc <= now

\* What a call gives back: the Dates it returns, or the Error it throws.
Returned(dates) == [threw |-> FALSE, dates |-> dates, message |-> Null]
Thrown(message) == [threw |-> TRUE, dates |-> <<>>, message |-> message]

MsgNoSlot == "Unable to find an available schedule slot within 365 days"
MsgNoSlots == "Unable to find ${count} available schedule slots within 365 days"

\* The two loops of getNextScheduleSlot from (dayOffset, index) on.
RECURSIVE ScanSlot(_, _, _, _, _)
ScanSlot(takenSlots, now, baseDay, dayOffset, index) ==
  IF dayOffset >= HorizonDays THEN Thrown(MsgNoSlot)
  ELSE IF index > Len(SLOT_HOURS)
  THEN ScanSlot(takenSlots, now, baseDay, dayOffset + 1, 1)
  ELSE LET slotUtc == SlotUtc(baseDay, dayOffset, index)
       IN IF SlotSkipped(slotUtc, now)
          THEN ScanSlot(takenSlots, now, baseDay, dayOffset, index + 1)
          ELSE IF formatInTimeZone(slotUtc) \notin takenSlots
          THEN Returned(<<slotUtc>>)
          ELSE ScanSlot(takenSlots, now, baseDay, dayOffset, index + 1)

getNextScheduleSlot(scheduled, now) ==
  ScanSlot(getTakenSlotKeys(scheduled), now, startOfDay(toZonedTime(now)), 0, 1)

\* Loops that never see enough slots.
SlotsEnoughNever(slots, count) == FALSE

\* slots.length >= count, the test that ends both loops of getNextScheduleSlots
SlotsEnough(slots, count) == Len(slots) >= count

\* The two loops of getNextScheduleSlots from (dayOffset, index) on: the
\* slots pushed when they end.
RECURSIVE ScanSlots(_, _, _, _, _, _, _)
ScanSlots(takenSlots, count, now, baseDay, dayOffset, index, slots) ==
  IF dayOffset >= HorizonDays \/ SlotsEnough(slots, count) THEN slots
  ELSE IF index > Len(SLOT_HOURS)
  THEN ScanSlots(takenSlots, count, now, baseDay, dayOffset + 1, 1, slots)
  ELSE LET slotUtc == SlotUtc(baseDay, dayOffset, index)
       IN IF SlotSkipped(slotUtc, now)
          THEN ScanSlots(takenSlots, count, now, baseDay, dayOffset, index + 1, slots)
          ELSE IF formatInTimeZone(slotUtc) \notin takenSlots
          THEN ScanSlots(takenSlots, count, now, baseDay, dayOffset, index + 1,
                         Append(slots, slotUtc))
          ELSE ScanSlots(takenSlots, count, now, baseDay, dayOffset, index + 1, slots)

\* return slots, without the length check before it.
SlotsFoundUnchecked(slots, count) == Returned(slots)

\* if (slots.length < count) throw ...; return slots
SlotsFound(slots, count) ==
  IF Len(slots) < count THEN Thrown(MsgNoSlots) ELSE Returned(slots)

getNextScheduleSlots(scheduled, count, now) ==
  SlotsFound(ScanSlots(getTakenSlotKeys(scheduled), count, now,
                       startOfDay(toZonedTime(now)), 0, 1, <<>>),
             count)

\* The instant at which the zone's wall clock reads day, hour:00 plus ms.
ZoneInstant(day, hour, ms) == fromZonedTime(day * MsPerDay + hour * MsPerHour + ms)

\* Zone-local days on which `now` falls, and the days a scan from them covers.
NowDays == {1, 2}
GridDays == 1..(HorizonDays + 1)

\* `now`: before the grid, on its first and last hour, after it; on the
\* hour, just after it, half past.
Nows ==
  {ZoneInstant(day, hour, ms) :
     day \in NowDays, hour \in {3, 4, 19, 23},
     ms \in {0, 1, 30 * MsPerMinute}}

\* scheduledFor of tweets that take every slot of the days in `days`.
FullDays(days) ==
  {ZoneInstant(day, SLOT_HOURS[index], 0) : day \in days, index \in DOMAIN SLOT_HOURS}

\* scheduledFor of tweets that take the slots of `day` up to hour `last`.
FirstHours(day, last) ==
  {ZoneInstant(day, hour, 0) : hour \in {h \in 4..19 : h <= last}}

\* scheduledFor that a user's edit put between two seconds of a slot's
\* minute, half past an hour, and on an hour the grid does not have.
OddInstants ==
  {ZoneInstant(1, 6, 30 * 1000 + 500), ZoneInstant(1, 7, 30 * MsPerMinute),
   ZoneInstant(1, 20, 0)}

\* The tweets a call is given.
ScheduledSets ==
  {FullDays(days) \cup FirstHours(day, last) \cup odd :
     days \in SUBSET GridDays, day \in GridDays, last \in {3, 5, 18},
     odd \in SUBSET OddInstants}

\* No call of the slot allocator is followed.
IdleSlotCall ==
  [pc |-> "idle", scheduled |-> {}, now |-> 0, fn |-> Null, count |-> 0,
   result |-> Returned(<<>>)]

\* getNextScheduleSlot(tweets, now) runs to its return or its throw.
CallGetNextScheduleSlot ==
  /\ slotCall.pc = "ready"
  /\ slotCall' = [slotCall EXCEPT
                    !.pc = "done", !.fn = "getNextScheduleSlot", !.count = 1,
                    !.result = getNextScheduleSlot(slotCall.scheduled, slotCall.now)]
  /\ UNCHANGED <<publicationVars, board, bulk, legacy>>

\* getNextScheduleSlots(tweets, count, now) runs to its return or its throw.
CallGetNextScheduleSlots ==
  /\ slotCall.pc = "ready"
  /\ \E count \in 0..MaxCount :
       slotCall' = [slotCall EXCEPT
                      !.pc = "done", !.fn = "getNextScheduleSlots", !.count = count,
                      !.result = getNextScheduleSlots(slotCall.scheduled, count,
                                                      slotCall.now)]
  /\ UNCHANGED <<publicationVars, board, bulk, legacy>>

(* ----------------------- creates on one account ------------------------ *)

\* No account is followed.
IdleBoard ==
  [pc |-> "idle", docs |-> <<>>, tweets |-> {}, nextSlot |-> <<>>, now |-> 0,
   hours |-> 0, clicks |-> 0, pending |-> <<>>, uploading |-> FALSE,
   bulkSlots |-> {}, runs |-> 0,
   mediaDocs |-> <<>>, mediaTweets |-> <<>>, objects |-> {}, jobs |-> {},
   uploads |-> 0, deleting |-> {}]

\* const nextSlot = useMemo(() => { try { return getNextScheduleSlot(tweets) }
\* catch { return null } }, [tweets]): <<slot>>, or <<>> for null.
nextSlotMemo(scheduled, now) == getNextScheduleSlot(scheduled, now).dates

\* subscribeToTweets' callback: setTweets(nextTweets), and the render after
\* it recomputes nextSlot at the time it runs.
BoardSnapshot ==
  /\ board.pc = "open"
  /\ LET nextTweets == {board.docs[i] : i \in DOMAIN board.docs}
     IN /\ nextTweets # board.tweets
        /\ board' = [board EXCEPT !.tweets = nextTweets,
                                  !.nextSlot = nextSlotMemo(nextTweets, board.now)]
  /\ UNCHANGED <<publicationVars, slotCall, bulk, legacy>>

\* handleCreate up to its first await: slot = nextSlot ?? getNextScheduleSlot(tweets);
\* the draft then waits for uploadTweetMedia and createTweet.
handleCreate ==
  /\ board.pc = "open"
  /\ board.clicks < MaxClicks
  /\ LET slot == IF board.nextSlot # <<>> THEN Returned(board.nextSlot)
                 ELSE getNextScheduleSlot(board.tweets, board.now)
     IN board' = [board EXCEPT
                    !.clicks = @ + 1,
                    !.pending = IF slot.threw THEN @ ELSE Append(@, slot.dates[1])]
  /\ UNCHANGED <<publicationVars, slotCall, bulk, legacy>>

\* handleRetweet(tweet) up to its await: slot = getNextScheduleSlot(tweets).
handleRetweet ==
  /\ board.pc = "open"
  /\ board.clicks < MaxClicks
  /\ board.tweets # {}
  /\ LET slot == getNextScheduleSlot(board.tweets, board.now)
     IN board' = [board EXCEPT
                    !.clicks = @ + 1,
                    !.pending = IF slot.threw THEN @ ELSE Append(@, slot.dates[1])]
  /\ UNCHANGED <<publicationVars, slotCall, bulk, legacy>>

\* createTweet(user.uid, draft) of a handler that is waiting: addDoc stores
\* the draft's scheduledFor, or rejects.
BoardCreateTweet ==
  /\ board.pc = "open"
  /\ \E i \in DOMAIN board.pending, stored \in BOOLEAN :
       board' = [board EXCEPT
                   !.pending = SubSeq(@, 1, i - 1) \o SubSeq(@, i + 1, Len(@)),
                   !.docs = IF stored THEN Append(@, board.pending[i]) ELSE @]
  /\ UNCHANGED <<publicationVars, slotCall, bulk, legacy>>

\* BulkMediaUpload.handleSubmit up to the call of bulkScheduleTweets:
\* slots = getNextScheduleSlots(existingTweets, files.length).
BoardBulkSubmit ==
  /\ board.pc = "open"
  /\ ~board.uploading
  /\ board.runs < MaxBulkRuns
  /\ \E files \in 1..MaxBulkFiles :
       LET slots == getNextScheduleSlots(board.tweets, files, board.now)
       IN /\ ~slots.threw
          /\ board' = [board EXCEPT
                         !.uploading = TRUE,
                         !.runs = @ + 1,
                         !.bulkSlots = {slots.dates[i] : i \in DOMAIN slots.dates}]
  /\ UNCHANGED <<publicationVars, slotCall, bulk, legacy>>

\* One turn of bulkScheduleTweets' loop: the next of the shuffled slots, and
\* createTweet stores it or the turn fails; after the last turn handleSubmit
\* ends with setUploading(false).
BoardBulkCreate ==
  /\ board.pc = "open"
  /\ board.uploading
  /\ \E scheduledFor \in board.bulkSlots, stored \in BOOLEAN :
       board' = [board EXCEPT
                   !.bulkSlots = @ \ {scheduledFor},
                   !.uploading = board.bulkSlots # {scheduledFor},
                   !.docs = IF stored THEN Append(@, scheduledFor) ELSE @]
  /\ UNCHANGED <<publicationVars, slotCall, bulk, legacy>>

\* An hour passes.
BoardTick ==
  /\ board.pc = "open"
  /\ board.hours < MaxHours
  /\ board' = [board EXCEPT !.hours = @ + 1, !.now = @ + MsPerHour]
  /\ UNCHANGED <<publicationVars, slotCall, bulk, legacy>>

(* ---------------------- media of one account's tweets ------------------ *)

\* board.mediaDocs is the tweets collection reduced to each document's media
\* (the storagePath of every attachment, in order); board.mediaTweets is the
\* `tweets` state of the page, the last snapshot delivered; board.objects are
\* the paths that hold an object in Storage; board.jobs are the handlers that
\* are waiting on an await; board.deleting are the tweets whose Delete button
\* was clicked.
MediaDocIds == 1..MaxMediaDocs

NoMediaDoc == [exists |-> FALSE, media |-> <<>>]
MediaDoc(media) == [exists |-> TRUE, media |-> media]

\* A handler at an await: what it does next and the values it has computed.
Job(op, step, id, media, paths) ==
  [op |-> op, step |-> step, id |-> id, media |-> media, paths |-> paths]

\* tweets.reduce((count, current) =>
\*   current.media.some((item) => item.storagePath === media.storagePath)
\*     ? count + 1 : count, 0)
usageCount(tweetList, storagePath) ==
  Cardinality({d \in MediaDocIds :
                 /\ tweetList[d].exists
                 /\ \E i \in DOMAIN tweetList[d].media :
                      tweetList[d].media[i] = storagePath})

\* tweet.media.filter(usageCount <= 1).map((item) => item.storagePath), the
\* deletablePaths of handleDelete and the removable of handleEditTweet.
deletablePaths(tweetList, tweet) ==
  {tweet.media[i] : i \in {j \in DOMAIN tweet.media :
                            usageCount(tweetList, tweet.media[j]) <= 1}}

\* deleteTweetMediaBatch(paths): each deleteObject succeeds or its error is
\* logged and swallowed; `gone` are the paths whose delete succeeded.
deleteTweetMediaBatch(objects, gone) == objects \ gone

\* The id addDoc gives the next document.
NewMediaDocId ==
  CHOOSE d \in MediaDocIds :
    /\ ~board.mediaDocs[d].exists
    /\ \A e \in MediaDocIds : e < d => board.mediaDocs[e].exists

\* The storagePath uploadTweetMedia makes from a fresh random mediaId.
NewStoragePath == board.uploads + 2

\* A card's button is clicked: the card shows a tweet of the `tweets` state.
CardClick(t) ==
  /\ board.pc = "media"
  /\ board.clicks < MaxCardClicks
  /\ board.mediaTweets[t].exists

\* onSnapshot delivers the collection: setTweets(nextTweets).
MediaSnapshot ==
  /\ board.pc = "media"
  /\ board.mediaTweets # board.mediaDocs
  /\ board' = [board EXCEPT !.mediaTweets = board.mediaDocs]
  /\ UNCHANGED <<publicationVars, slotCall, bulk, legacy>>

\* handleRetweet(tweet) up to await createTweet: clonedMedia copies every
\* item of tweet.media, storagePath included.
RetweetClicked(t) ==
  /\ CardClick(t)
  /\ \E d \in MediaDocIds : ~board.mediaDocs[d].exists
  /\ board' = [board EXCEPT
                 !.clicks = @ + 1,
                 !.jobs = @ \cup {Job("retweet", "create", t,
                                      board.mediaTweets[t].media, {})}]
  /\ UNCHANGED <<publicationVars, slotCall, bulk, legacy>>

\* createTweet(user.uid, clonedDraft): addDoc stores the clone or rejects.
RetweetCreate ==
  /\ board.pc = "media"
  /\ \E job \in board.jobs, stored \in BOOLEAN :
       /\ job.op = "retweet"
       /\ \E d \in MediaDocIds : ~board.mediaDocs[d].exists
       /\ board' = [board EXCEPT
                      !.jobs = @ \ {job},
                      !.mediaDocs = IF stored
                                    THEN [@ EXCEPT ![NewMediaDocId] = MediaDoc(job.media)]
                                    ELSE @]
  /\ UNCHANGED <<publicationVars, slotCall, bulk, legacy>>

\* handleDelete(tweet) up to its first await: deletablePaths from the `tweets`
\* state; with none to delete the first await is deleteTweet.
DeleteClicked(t) ==
  /\ CardClick(t)
  /\ LET tweet == board.mediaTweets[t]
         paths == deletablePaths(board.mediaTweets, tweet)
     IN board' = [board EXCEPT
                    !.clicks = @ + 1,
                    !.deleting = @ \cup {t},
                    !.jobs = @ \cup {Job("delete", IF paths = {} THEN "doc" ELSE "media",
                                         t, tweet.media, paths)}]
  /\ UNCHANGED <<publicationVars, slotCall, bulk, legacy>>

\* await deleteTweetMediaBatch(deletablePaths) of handleDelete.
DeleteMedia ==
  /\ board.pc = "media"
  /\ \E job \in board.jobs, gone \in SUBSET board.objects :
       /\ job.op = "delete" /\ job.step = "media"
       /\ gone \subseteq job.paths
       /\ board' = [board EXCEPT
                      !.objects = deleteTweetMediaBatch(@, gone),
                      !.jobs = (@ \ {job}) \cup {[job EXCEPT !.step = "doc"]}]
  /\ UNCHANGED <<publicationVars, slotCall, bulk, legacy>>

\* await deleteTweet(tweet.id): deleteDoc removes the document or rejects.
DeleteDoc ==
  /\ board.pc = "media"
  /\ \E job \in board.jobs, deleted \in BOOLEAN :
       /\ job.op = "delete" /\ job.step = "doc"
       /\ board' = [board EXCEPT
                      !.jobs = @ \ {job},
                      !.mediaDocs = IF deleted THEN [@ EXCEPT ![job.id] = NoMediaDoc]
                                    ELSE @]
  /\ UNCHANGED <<publicationVars, slotCall, bulk, legacy>>

\* handleEditTweet(tweet, input) up to its first await. The removable media are
\* computed after the upload, from the `tweets` the handler closed over at
\* the click. With replaceMediaFile the first await is uploadTweetMedia; with
\* removeMedia, or with neither, it is updateTweet.
EditClicked(t) ==
  /\ CardClick(t)
  /\ LET tweet == board.mediaTweets[t]
         removable == deletablePaths(board.mediaTweets, tweet)
     IN \E input \in {"replaceMediaFile", "removeMedia", "text"} :
          /\ input = "replaceMediaFile" => board.uploads < MaxUploads
          /\ board' = [board EXCEPT
                         !.clicks = @ + 1,
                         !.jobs = @ \cup
                           {IF input = "replaceMediaFile"
                            THEN Job("edit", "upload", t, tweet.media, removable)
                            ELSE IF input = "removeMedia"
                            THEN Job("edit", "update", t, <<>>, removable)
                            ELSE Job("edit", "update", t, tweet.media, {})}]
  /\ UNCHANGED <<publicationVars, slotCall, bulk, legacy>>

\* await uploadTweetMedia(...): the object is stored under a new path and
\* nextMedia = [uploaded], or the upload throws and the handler ends.
EditUpload ==
  /\ board.pc = "media"
  /\ board.uploads < MaxUploads
  /\ \E job \in board.jobs, uploaded \in BOOLEAN :
       /\ job.op = "edit" /\ job.step = "upload"
       /\ board' = IF uploaded
                   THEN [board EXCEPT
                           !.uploads = @ + 1,
                           !.objects = @ \cup {NewStoragePath},
                           !.jobs = (@ \ {job}) \cup
                                    {[job EXCEPT !.step = "update",
                                                 !.media = <<NewStoragePath>>]}]
                   ELSE [board EXCEPT !.jobs = @ \ {job}]
  /\ UNCHANGED <<publicationVars, slotCall, bulk, legacy>>

\* await updateTweet(tweet.id, {text, media: nextMedia}): updateDoc throws on
\* a document that is gone or when the store rejects, and the handler ends.
EditUpdate ==
  /\ board.pc = "media"
  /\ \E job \in board.jobs, storeOk \in BOOLEAN :
       /\ job.op = "edit" /\ job.step = "update"
       /\ board' = IF UpdateApplies(board.mediaDocs[job.id], storeOk)
                   THEN [board EXCEPT
                           !.mediaDocs[job.id].media = job.media,
                           !.jobs = (@ \ {job}) \cup
                                    (IF job.paths = {} THEN {}
                                     ELSE {[job EXCEPT !.step = "media"]})]
                   ELSE [board EXCEPT !.jobs = @ \ {job}]
  /\ UNCHANGED <<publicationVars, slotCall, bulk, legacy>>

\* await deleteTweetMediaBatch(mediaToDelete) of handleEditTweet.
EditDeleteMedia ==
  /\ board.pc = "media"
  /\ \E job \in board.jobs, gone \in SUBSET board.objects :
       /\ job.op = "edit" /\ job.step = "media"
       /\ gone \subseteq job.paths
       /\ board' = [board EXCEPT
                      !.objects = deleteTweetMediaBatch(@, gone),
                      !.jobs = @ \ {job}]
  /\ UNCHANGED <<publicationVars, slotCall, bulk, legacy>>

(* ------------------------- bulkScheduleTweets -------------------------- *)

\* options.files: File objects, named by their position in the selection.
FileLists == {[i \in 1..n |-> i] : n \in 0..MaxFiles}

\* options.slots: what getNextScheduleSlots returns on an empty account at
\* 03:30 of day 1, cut to any length.
SlotLists ==
  LET slots == getNextScheduleSlots({}, MaxSlots, ZoneInstant(1, 3, 30 * MsPerMinute)).dates
  IN {SubSeq(slots, 1, n) : n \in 0..Len(slots)}

MsgNoFiles == "No files provided"
MsgNotEnoughSlots == "Not enough available slots. Need ${files.length}, have ${slots.length}"
MsgUnknown == "Unknown error"
MsgUploadRejected == "upload rejected"
MsgCreateRejected == "create rejected"

\* The argument checks, the second left out.
BulkArgumentErrorFilesOnly(files, slots) ==
  IF Len(files) = 0 THEN MsgNoFiles ELSE Null

\* if (files.length === 0) throw ...; if (slots.length < files.length) throw ...
BulkArgumentError(files, slots) ==
  IF Len(files) = 0 THEN MsgNoFiles
  ELSE IF Len(slots) < Len(files) THEN MsgNotEnoughSlots
  ELSE Null

\* array.slice(0, end)
slice(array, end) ==
  SubSeq(array, 1, IF end < Len(array) THEN end ELSE Len(array))

\* shuffled[i] = shuffled[j], without the exchange.
SwapOverwrite(shuffled, i, j) == [shuffled EXCEPT ![i] = shuffled[j]]

\* [shuffled[i], shuffled[j]] = [shuffled[j], shuffled[i]]
Swap(shuffled, i, j) ==
  [shuffled EXCEPT ![i] = shuffled[j], ![j] = shuffled[i]]

\* No bulk run is followed.
IdleBulk ==
  [pc |-> "idle", files |-> <<>>, slots |-> <<>>, hasSink |-> FALSE,
   shuffledFiles |-> <<>>, shuffledSlots |-> <<>>, k |-> 0, i |-> 0,
   completed |-> 0, failed |-> 0, errors |-> <<>>, pairs |-> <<>>,
   outcomes |-> <<>>, progress |-> <<>>, message |-> Null]

\* onProgress is left out.
NotifyNobody(b, currentFile) == b

\* if (onProgress) onProgress({ total, completed, failed, currentFile })
Notify(b, currentFile) ==
  IF b.hasSink
  THEN [b EXCEPT !.progress =
          Append(@, [total |-> Len(b.shuffledFiles), completed |-> b.completed,
                     failed |-> b.failed, currentFile |-> currentFile])]
  ELSE b

\* The catch block, throwing on instead of counting.
CatchItemRethrow(b, errorMsg) == [b EXCEPT !.pc = "thrown", !.message = errorMsg]

\* catch (error) { failed++; errors.push(`${file.name}: ${errorMsg}`) }, and
\* the loop's i++.
CatchItem(b, errorMsg) ==
  [b EXCEPT !.failed = @ + 1,
            !.errors = Append(@, <<b.shuffledFiles[b.i], errorMsg>>),
            !.outcomes = Append(@, <<b.shuffledFiles[b.i], "failed">>),
            !.i = @ + 1,
            !.pc = "loop"]

\* currentFile: '' of the notification after the loop.
NoFile == 0

\* bulkScheduleTweets is called: the two argument checks.
BulkCall ==
  /\ bulk.pc = "called"
  /\ LET message == BulkArgumentError(bulk.files, bulk.slots)
     IN bulk' = IF message # Null
                THEN [bulk EXCEPT !.pc = "thrown", !.message = message]
                ELSE [bulk EXCEPT !.pc = "shuffleFiles",
                                  !.shuffledFiles = bulk.files,
                                  !.k = Len(bulk.files)]
  /\ UNCHANGED <<publicationVars, slotCall, board, legacy>>

\* shuffleArray(files): one turn of its loop with Math.random()'s j, or its
\* return, after which shuffleArray(slots.slice(0, files.length)) starts.
ShuffleFiles ==
  /\ bulk.pc = "shuffleFiles"
  /\ IF bulk.k > 1
     THEN \E j \in 1..bulk.k :
            bulk' = [bulk EXCEPT !.shuffledFiles = Swap(@, bulk.k, j), !.k = @ - 1]
     ELSE bulk' = [bulk EXCEPT !.pc = "shuffleSlots",
                               !.shuffledSlots = slice(bulk.slots, Len(bulk.files)),
                               !.k = Len(slice(bulk.slots, Len(bulk.files)))]
  /\ UNCHANGED <<publicationVars, slotCall, board, legacy>>

\* shuffleArray(slots.slice(0, files.length)): one turn, or its return, after
\* which completed = 0, failed = 0, errors = [] and the loop starts at i = 0.
ShuffleSlots ==
  /\ bulk.pc = "shuffleSlots"
  /\ IF bulk.k > 1
     THEN \E j \in 1..bulk.k :
            bulk' = [bulk EXCEPT !.shuffledSlots = Swap(@, bulk.k, j), !.k = @ - 1]
     ELSE bulk' = [bulk EXCEPT !.pc = "loop", !.i = 1]
  /\ UNCHANGED <<publicationVars, slotCall, board, legacy>>

\* The loop's head and the body up to `await uploadTweetMedia`: file and
\* scheduledFor are taken, onProgress is called, the upload starts. When
\* i has reached shuffledFiles.length the loop is left.
BulkIterate ==
  /\ bulk.pc = "loop"
  /\ bulk' = IF bulk.i > Len(bulk.shuffledFiles)
             THEN [bulk EXCEPT !.pc = "final"]
             ELSE [Notify(bulk, bulk.shuffledFiles[bulk.i]) EXCEPT
                     !.pc = "upload",
                     !.pairs = Append(@, <<bulk.shuffledFiles[bulk.i],
                                           bulk.shuffledSlots[bulk.i]>>)]
  /\ UNCHANGED <<publicationVars, slotCall, board, legacy>>

\* uploadTweetMedia settles: createTweet starts, or the catch block runs
\* with the Error's message or, for a thrown non-Error, 'Unknown error'.
BulkUpload ==
  /\ bulk.pc = "upload"
  /\ \E outcome \in {"stored", MsgUploadRejected, MsgUnknown} :
       bulk' = IF outcome = "stored"
               THEN [bulk EXCEPT !.pc = "create"]
               ELSE CatchItem(bulk, outcome)
  /\ UNCHANGED <<publicationVars, slotCall, board, legacy>>

\* createTweet settles: completed++, or the catch block.
BulkCreate ==
  /\ bulk.pc = "create"
  /\ \E stored \in BOOLEAN :
       bulk' = IF stored
               THEN [bulk EXCEPT
                       !.completed = @ + 1,
                       !.outcomes = Append(@, <<bulk.shuffledFiles[bulk.i], "created">>),
                       !.i = @ + 1,
                       !.pc = "loop"]
               ELSE CatchItem(bulk, MsgCreateRejected)
  /\ UNCHANGED <<publicationVars, slotCall, board, legacy>>

\* After the loop: the last onProgress, then return { successful, failed, errors }.
BulkReturn ==
  /\ bulk.pc = "final"
  /\ bulk' = [Notify(bulk, NoFile) EXCEPT !.pc = "returned"]
  /\ UNCHANGED <<publicationVars, slotCall, board, legacy>>

(* ------------------- provisionLegacyTwitterAccount --------------------- *)

\* let groupRef = null
NoRef == 0

\* data.groupName and data.accountDisplayName as the client sends them:
\* not a string, blank, or a name with spaces around it.
RawGroupNames == {Null, "  ", " team "}
RawDisplayNames == {Null, "  ", " main "}

\* typeof value === 'string' ? value.trim() : ''
trimmed(value) ==
  CASE value = " team " -> "team"
    [] value = " main " -> "main"
    [] OTHER -> ""

\* twitterCredentials/{uid}: missing, or with any of its fields absent.
NoLegacyDoc ==
  [exists |-> FALSE, accessToken |-> Null, accessSecret |-> Null,
   displayName |-> Null, handle |-> Null, screenName |-> Null]
LegacyDocs ==
  {NoLegacyDoc} \cup
  [exists : {TRUE}, accessToken : {Null, "token"}, accessSecret : {Null, "secret"},
   displayName : {Null, "Old name"}, handle : {Null, "@handle"},
   screenName : {Null, "screen"}]

MsgAuthRequired == "Authentication is required."
MsgGroupNameRequired == "Group name is required."
MsgNoLegacyCredentials == "No existing Twitter credentials found for this user."
MsgIncompleteCredentials == "Legacy Twitter credentials are incomplete."
MsgProvision == "Unable to provision group and account."
MsgAddRejected == "add rejected"

\* What the callable answers: an HttpsError, or { groupId, accountId }.
LegacyError(code, message) ==
  [code |-> code, message |-> message, groupId |-> NoRef, accountId |-> NoRef]
LegacyResult(groupId, accountId) ==
  [code |-> "ok", message |-> Null, groupId |-> groupId, accountId |-> accountId]
NoResponse == LegacyError(Null, Null)

\* The checks before the try block: the HttpsError thrown, or NoResponse.
LegacyValidationError(auth, groupName, legacyDoc) ==
  IF auth = Null THEN LegacyError("unauthenticated", MsgAuthRequired)
  ELSE IF trimmed(groupName) = "" THEN LegacyError("invalid-argument", MsgGroupNameRequired)
  ELSE IF ~legacyDoc.exists
  THEN LegacyError("failed-precondition", MsgNoLegacyCredentials)
  ELSE IF legacyDoc.accessToken = Null \/ legacyDoc.accessSecret = Null
  THEN LegacyError("failed-precondition", MsgIncompleteCredentials)
  ELSE NoResponse

\* a || b || c on strings that may be absent or empty.
FirstNonEmpty(a, b, c) ==
  IF a # Null /\ a # "" THEN a ELSE IF b # Null /\ b # "" THEN b ELSE c

\* The socialAccounts document of the call.
SocialAccountDoc(id, groupId, in) ==
  [id |-> id, groupId |-> groupId, provider |-> "twitter",
   displayName |-> FirstNonEmpty(trimmed(in.accountDisplayName),
                                 in.legacyDoc.displayName,
                                 "${groupName} Twitter account"),
   handle |-> FirstNonEmpty(in.legacyDoc.handle, in.legacyDoc.screenName, ""),
   ownerUid |-> in.auth,
   accessToken |-> in.legacyDoc.accessToken,
   accessSecret |-> in.legacyDoc.accessSecret]

NoInput ==
  [auth |-> Null, groupName |-> Null, accountDisplayName |-> Null,
   legacyDoc |-> NoLegacyDoc]

\* The catch block with no cleanup: the groups collection as it is.
RollbackSkipped(groups, groupRef, deleted) == groups

\* await groupRef.delete(): the groups collection after it, rejected or not.
Rollback(groups, groupRef, deleted) ==
  IF deleted THEN groups \ {groupRef} ELSE groups

\* error instanceof Error ? error.message : 'Unable to provision group and account.'
ProvisionMessage(thrown) == IF thrown = "nonError" THEN MsgProvision ELSE thrown

\* No import is followed.
IdleLegacy ==
  [pc |-> "idle", calls |-> 0, in |-> NoInput, groups |-> {}, accounts |-> {},
   groupRef |-> NoRef, rollback |-> "none", error |-> Null,
   response |-> NoResponse]

\* The callable is invoked: its checks, then the try block is entered.
LegacyCall ==
  /\ legacy.pc \in {"ready", "responded"}
  /\ legacy.calls < MaxImports
  /\ \E auth \in {Null, Owner}, groupName \in RawGroupNames,
        accountDisplayName \in RawDisplayNames, legacyDoc \in LegacyDocs :
       LET in == [auth |-> auth, groupName |-> groupName,
                  accountDisplayName |-> accountDisplayName, legacyDoc |-> legacyDoc]
           error == LegacyValidationError(auth, groupName, legacyDoc)
       IN legacy' = [legacy EXCEPT
                       !.calls = @ + 1, !.in = in, !.groupRef = NoRef,
                       !.rollback = "none", !.error = Null, !.response = error,
                       !.pc = IF error # NoResponse THEN "responded" ELSE "addGroup"]
  /\ UNCHANGED <<publicationVars, slotCall, board, bulk>>

\* groupRef = await db.collection('groups').add(...): stored, or rejected
\* with an Error or something else; a rejection goes to the catch block
\* with groupRef still null, which throws `internal` at once.
LegacyAddGroup ==
  /\ legacy.pc = "addGroup"
  /\ \E outcome \in {"stored", MsgAddRejected, "nonError"} :
       legacy' = IF outcome = "stored"
                 THEN [legacy EXCEPT !.pc = "addAccount",
                                     !.groupRef = legacy.calls,
                                     !.groups = @ \cup {legacy.calls}]
                 ELSE [legacy EXCEPT
                         !.pc = "responded",
                         !.error = ProvisionMessage(outcome),
                         !.response = LegacyError("internal", ProvisionMessage(outcome))]
  /\ UNCHANGED <<publicationVars, slotCall, board, bulk>>

\* await groupRef.collection('socialAccounts').add(...): stored, and the
\* call returns the two ids; or rejected, and the catch block is entered.
LegacyAddAccount ==
  /\ legacy.pc = "addAccount"
  /\ \E outcome \in {"stored", MsgAddRejected, "nonError"} :
       legacy' = IF outcome = "stored"
                 THEN [legacy EXCEPT
                         !.pc = "responded",
                         !.accounts = @ \cup {SocialAccountDoc(legacy.calls,
                                                               legacy.groupRef, legacy.in)},
                         !.response = LegacyResult(legacy.groupRef, legacy.calls)]
                 ELSE [legacy EXCEPT !.pc = "rollback",
                                     !.error = ProvisionMessage(outcome)]
  /\ UNCHANGED <<publicationVars, slotCall, board, bulk>>

\* The catch block with groupRef set: await groupRef.delete() inside its own
\* try, then throw new HttpsError('internal', message).
LegacyRollback ==
  /\ legacy.pc = "rollback"
  /\ \E deleted \in BOOLEAN :
       legacy' = [legacy EXCEPT
                    !.pc = "responded",
                    !.groups = Rollback(@, legacy.groupRef, deleted),
                    !.rollback = IF deleted THEN "deleted" ELSE "rejected",
                    !.response = LegacyError("internal", legacy.error)]
  /\ UNCHANGED <<publicationVars, slotCall, board, bulk>>

(* --------------------------- specifications ---------------------------- *)

\* No tweet is being published.
NoPublication ==
  /\ tweets = [t \in TweetIds |-> NoDoc]
  /\ clock = 0
  /\ sweep = [s \in Sweeps |-> IdleSweep]
  /\ call = [c \in Calls |-> IdleCall]
  /\ posts = [t \in TweetIds |-> 0]
  /\ contenders = [t \in TweetIds |-> [waiting |-> {}, acquired |-> FALSE]]
  /\ uiStatus = [t \in TweetIds |-> tweets[t].status]
  /\ isEditing = [t \in TweetIds |-> FALSE]
  /\ writes = 0
  /\ attempt = IdleAttempt

\* The documents the collection can hold before any publishing starts: the
\* first tweet in any status a user can give it, the others scheduled by
\* createTweet or not created.
InitialDocs(t) ==
  IF t = 1
  THEN {NewDoc(Owner, st, "v1", 0) : st \in {"draft", "scheduled", "queued", "manual"}}
  ELSE {NewDoc(Owner, "scheduled", "v1", t - 1), NoDoc}

Init ==
  /\ tweets \in {f \in [TweetIds -> UNION {InitialDocs(t) : t \in TweetIds}] :
                   \A t \in TweetIds : f[t] \in InitialDocs(t)}
  /\ clock = 0
  /\ sweep = [s \in Sweeps |-> IdleSweep]
  /\ call = [c \in Calls |-> IdleCall]
  /\ posts = [t \in TweetIds |-> 0]
  /\ contenders = [t \in TweetIds |-> [waiting |-> {}, acquired |-> FALSE]]
  /\ uiStatus = [t \in TweetIds |-> tweets[t].status]
  /\ isEditing = [t \in TweetIds |-> FALSE]
  /\ writes = 0
  /\ attempt = IdleAttempt
  /\ slotCall = IdleSlotCall
  /\ board = IdleBoard
  /\ bulk = IdleBulk
  /\ legacy = IdleLegacy

\* The sweep and the manual publish only.
NextCoordinator ==
  \/ Tick
  \/ \E s \in Sweeps : SweepQuery(s)
  \/ \E s \in Sweeps : SweepLock(s)
  \/ \E s \in Sweeps : SweepPublish(s)
  \/ \E s \in Sweeps : SweepMarkPosted(s)
  \/ \E s \in Sweeps : SweepMarkFailure(s)
  \/ \E c \in Calls : ManualCall(c)
  \/ \E c \in Calls : ManualLock(c)
  \/ \E c \in Calls : ManualPublish(c)
  \/ \E c \in Calls : ManualMarkPosted(c)
  \/ \E c \in Calls : ManualMarkFailure(c)

NextDashboard ==
  \/ SnapshotDelivered
  \/ \E t \in TweetIds : handleToggleManual(t)
  \/ \E t \in TweetIds : QueueClicked(t)
  \/ \E t \in TweetIds : MarkPostedClicked(t)
  \/ \E t \in TweetIds : handleDelete(t)
  \/ \E t \in TweetIds : handleStartEdit(t)
  \/ \E t \in TweetIds : handleSave(t)
  \/ handleReorder

\* The dashboard user beside one invocation of the sweep.
NextWithDashboard ==
  \/ Tick
  \/ SweepQuery(1)
  \/ SweepLock(1)
  \/ SweepPublish(1)
  \/ SweepMarkPosted(1)
  \/ SweepMarkFailure(1)
  \/ NextDashboard

\* One tweet that an attempt has just locked, with any media.
InitAttempt ==
  /\ tweets = [t \in TweetIds |->
                 IF t = AttemptTweet
                 THEN LockUpdate(NewDoc(Owner, "scheduled", "v1", 0))
                 ELSE NoDoc]
  /\ clock = 0
  /\ sweep = [s \in Sweeps |-> IdleSweep]
  /\ call = [c \in Calls |-> IdleCall]
  /\ posts = [t \in TweetIds |-> 0]
  /\ contenders = [t \in TweetIds |-> [waiting |-> {}, acquired |-> FALSE]]
  /\ uiStatus = [t \in TweetIds |-> tweets[t].status]
  /\ isEditing = [t \in TweetIds |-> FALSE]
  /\ writes = 0
  /\ \E media \in MediaLists :
       attempt = [IdleAttempt EXCEPT !.pc = "credentials", !.media = media]
  /\ slotCall = IdleSlotCall
  /\ board = IdleBoard
  /\ bulk = IdleBulk
  /\ legacy = IdleLegacy

NextAttempt ==
  \/ AttemptCredentials
  \/ UploadLoop
  \/ UploadDownload
  \/ UploadToProvider
  \/ AttemptPost
  \/ AttemptMarkPosted
  \/ AttemptMarkFailure

\* One call of the slot allocator on any tweets at any time.
InitSlots ==
  /\ NoPublication
  /\ \E scheduled \in ScheduledSets, now \in Nows :
       slotCall = [IdleSlotCall EXCEPT !.pc = "ready", !.scheduled = scheduled,
                                       !.now = now]
  /\ board = IdleBoard
  /\ bulk = IdleBulk
  /\ legacy = IdleLegacy

\* The dashboard opened on an account that has no tweet or one.
InitBoard ==
  /\ NoPublication
  /\ slotCall = IdleSlotCall
  /\ \E docs \in {<<>>, <<ZoneInstant(1, 4, 0)>>}, now \in {ZoneInstant(1, 3, 30 * MsPerMinute)} :
       board = [IdleBoard EXCEPT
                  !.pc = "open", !.docs = docs, !.now = now,
                  !.tweets = {docs[i] : i \in DOMAIN docs},
                  !.nextSlot = nextSlotMemo({docs[i] : i \in DOMAIN docs}, now)]
  /\ bulk = IdleBulk
  /\ legacy = IdleLegacy

NextBoard ==
  \/ BoardSnapshot
  \/ handleCreate
  \/ handleRetweet
  \/ BoardCreateTweet
  \/ BoardBulkSubmit
  \/ BoardBulkCreate
  \/ BoardTick

\* bulkScheduleTweets called with any files, any slots, with and without
\* a progress callback.
InitBulk ==
  /\ NoPublication
  /\ slotCall = IdleSlotCall
  /\ board = IdleBoard
  /\ \E files \in FileLists, slots \in SlotLists, hasSink \in BOOLEAN :
       bulk = [IdleBulk EXCEPT !.pc = "called", !.files = files, !.slots = slots,
                               !.hasSink = hasSink]
  /\ legacy = IdleLegacy

NextBulk ==
  \/ BulkCall
  \/ ShuffleFiles
  \/ ShuffleSlots
  \/ BulkIterate
  \/ BulkUpload
  \/ BulkCreate
  \/ BulkReturn

\* One tweet with one attachment, its object stored, and the page showing it.
InitMedia ==
  /\ NoPublication
  /\ slotCall = IdleSlotCall
  /\ LET docs == [d \in MediaDocIds |-> IF d = 1 THEN MediaDoc(<<1>>) ELSE NoMediaDoc]
     IN board = [IdleBoard EXCEPT
                   !.pc = "media", !.mediaDocs = docs, !.mediaTweets = docs,
                   !.objects = {1}]
  /\ bulk = IdleBulk
  /\ legacy = IdleLegacy

NextMedia ==
  \/ MediaSnapshot
  \/ \E t \in MediaDocIds : RetweetClicked(t)
  \/ RetweetCreate
  \/ \E t \in MediaDocIds : DeleteClicked(t)
  \/ DeleteMedia
  \/ DeleteDoc
  \/ \E t \in MediaDocIds : EditClicked(t)
  \/ EditUpload
  \/ EditUpdate
  \/ EditDeleteMedia

\* The callable deployed, no group stored yet.
InitLegacy ==
  /\ NoPublication
  /\ slotCall = IdleSlotCall
  /\ board = IdleBoard
  /\ bulk = IdleBulk
  /\ legacy = [IdleLegacy EXCEPT !.pc = "ready"]

NextLegacy ==
  \/ LegacyCall
  \/ LegacyAddGroup
  \/ LegacyAddAccount
  \/ LegacyRollback

NextSlots ==
  \/ CallGetNextScheduleSlot
  \/ CallGetNextScheduleSlots

SpecCoordinator == Init /\ [][NextCoordinator]_vars

\* The sweep and the manual publish on instances that may stop.
NextStopping ==
  \/ NextCoordinator
  \/ \E s \in Sweeps : SweepStops(s)
  \/ \E c \in Calls : ManualStops(c)

SpecStopping == Init /\ [][NextStopping]_vars

\* The sweep alone, on pages of PageSize documents: nobody edits and nobody
\* publishes by hand.
NextSweeping ==
  \/ Tick
  \/ \E s \in Sweeps : SweepQueryPage(s)
  \/ \E s \in Sweeps : SweepLock(s)
  \/ \E s \in Sweeps : SweepPublish(s)
  \/ \E s \in Sweeps : SweepMarkPosted(s)
  \/ \E s \in Sweeps : SweepMarkFailure(s)

\* The schedule keeps triggering the sweep while tweets are due, every await
\* of an invocation returns, and the store does not reject the lock
\* transaction of a slot for ever.
SweepingFairness ==
  \A s \in Sweeps :
    /\ WF_vars(SweepQueryPage(s))
    /\ WF_vars(SweepLock(s))
    /\ SF_vars(SweepLock(s) /\ tweets' # tweets)
    /\ WF_vars(SweepPublish(s))
    /\ WF_vars(SweepMarkPosted(s))
    /\ WF_vars(SweepMarkFailure(s))

SpecSweeping == Init /\ [][NextSweeping]_vars /\ SweepingFairness

SpecAttempt == InitAttempt /\ [][NextAttempt]_vars

SpecDashboard == Init /\ [][NextWithDashboard]_vars

SpecSlots == InitSlots /\ [][NextSlots]_vars

SpecBoard == InitBoard /\ [][NextBoard]_vars

SpecMedia == InitMedia /\ [][NextMedia]_vars

SpecBulk == InitBulk /\ [][NextBulk]_vars

SpecLegacy == InitLegacy /\ [][NextLegacy]_vars

(* ------------------------------ claims --------------------------------- *)

\* The call in slot c answers in this step.
Returns(c) == call'[c].pc = "done" /\ call'[c] # call[c]

\* The answer of a lock transaction that the store rejected.
PrepareError == HttpsError("internal", MsgPrepare)

\* C1: for every tweet, over every interleaving of sweep invocations and
\* manual publish calls, the provider accepts at most one post.
C1_AtMostOncePost == \A t \in TweetIds : posts[t] <= 1

\* C2: of the lock attempts in flight on a tweet whose status is `scheduled`,
\* only one acquires the lock; none of the others acquires it afterwards.
C2_OneLockPerContention == \A t \in TweetIds : ~contenders[t].acquired

\* C3: a manual publish by the author of a tweet whose status is `posted`
\* answers failed-precondition, posts nothing and writes nothing; and nothing
\* in the coordinator writes a `posted` tweet, so repeating the call gives the
\* same answer.
C3_PostedPublishRefused ==
  [][/\ \A c \in Calls :
          LET doc == tweets[call[c].tweetId]
          IN (/\ call[c].pc = "lock"
              /\ call'[c] # call[c]
              /\ doc.exists
              /\ doc.status = "posted"
              /\ doc.authorUid = call[c].auth)
             => /\ call'[c].pc = "done"
                /\ tweets' = tweets
                /\ posts' = posts
                /\ call'[c].result # PrepareError
                   => call'[c].result =
                        HttpsError("failed-precondition",
                                   "Tweet has already been posted.")
     /\ \A t \in TweetIds :
          (tweets[t].exists /\ tweets[t].status = "posted")
            => (tweets'[t] = tweets[t] /\ posts'[t] = posts[t])]_vars

\* A call was answered "already posted" about a tweet that was posted once.
C3_Witness ==
  \E c \in Calls, t \in TweetIds :
    /\ call[c].pc = "done"
    /\ call[c].result =
         HttpsError("failed-precondition", "Tweet has already been posted.")
    /\ tweets[t].status = "posted"
    /\ posts[t] = 1

\* C4: the manual publish transaction grants the lock only to an authenticated
\* caller whose uid is the tweet's authorUid and only from status `manual`; the
\* author's call on a tweet in any other status answers failed-precondition
\* and leaves the document as it was.
C4_ManualLockPreconditions ==
  [][\A c \in Calls :
       LET doc == tweets[call[c].tweetId]
       IN (call[c].pc = "lock" /\ call'[c] # call[c])
          => /\ call'[c].pc = "publish"
                => /\ call[c].auth # Null
                   /\ doc.exists
                   /\ doc.authorUid = call[c].auth
                   /\ doc.status = "manual"
             /\ (doc.exists /\ doc.authorUid = call[c].auth /\ doc.status # "manual")
                => /\ call'[c].pc = "done"
                   /\ tweets' = tweets
                   /\ call'[c].result # PrepareError
                      => call'[c].result.code = "failed-precondition"]_vars

\* The author's call on a tweet that is neither manual, draft, processing nor
\* posted was refused, and the tweets are as createTweet left them.
C4_Witness ==
  \E c \in Calls :
    /\ call[c].pc = "done"
    /\ call[c].result =
         HttpsError("failed-precondition",
                    "Tweet must be marked as manual before publishing.")
    /\ \A t \in TweetIds : tweets[t].exists => tweets[t].lastUpdatedAt = "createTweet"

\* C5: a tweet whose status is `processing` changes status only to `posted` or
\* `failed`, whichever operation writes it.
C5_ProcessingOnlyToTerminal ==
  [][\A t \in TweetIds :
       (tweets[t].exists /\ tweets[t].status = "processing" /\ tweets'[t].exists)
         => tweets'[t].status \in {"processing", "posted", "failed"}]_vars

\* C6: no write issued by the dashboard changes a tweet whose stored status is
\* `processing`.
C6_NoDashboardWriteWhileProcessing ==
  [][writes' # writes
       => \A t \in TweetIds :
            (tweets[t].exists /\ tweets[t].status = "processing")
              => tweets'[t] = tweets[t]]_vars

\* The codes of validation, authorization and precondition errors.
RejectionCodes ==
  {"unauthenticated", "invalid-argument", "not-found", "permission-denied",
   "failed-precondition"}

\* The call in slot c has not passed its lock transaction.
BeforeLock(c) == call[c].pc \in {"idle", "done", "lock"}

AfterLock(c) == call[c].pc \in {"publish", "markPosted", "markFailure"}

C10_FailedNotRetried ==
  [][\A t \in TweetIds :
       (tweets[t].exists /\ tweets[t].status = "failed")
         => tweets'[t].status # "processing"]_vars

\* The lock transaction of the author's call in slot c runs in this step and
\* reads the tweet in the given status.
AuthorTxnReads(c, status) ==
  LET doc == tweets[call[c].tweetId]
  IN /\ call[c].pc = "lock"
     /\ call'[c] # call[c]
     /\ call'[c].result # PrepareError
     /\ doc.exists
     /\ doc.authorUid = call[c].auth
     /\ doc.status = status

\* C11 as stated: a manual publish by the author on a tweet whose status is
\* `failed` acquires the lock and the tweet re-enters `processing`.
C11_FailedResubmitAcquires ==
  [][\A c \in Calls :
       AuthorTxnReads(c, "failed")
         => /\ call'[c].pc = "publish"
            /\ tweets'[call[c].tweetId].status = "processing"]_vars

\* C11: a manual publish by the author on a tweet whose status is `failed` is
\* refused with failed-precondition and the tweet stays as it was; the call
\* acquires the lock only from status `manual`.
C11_FailedResubmitRefused ==
  [][\A c \in Calls :
       /\ AuthorTxnReads(c, "failed")
            => /\ call'[c].result =
                    HttpsError("failed-precondition",
                               "Tweet must be marked as manual before publishing.")
               /\ tweets' = tweets
               /\ posts' = posts
       /\ (call[c].pc = "lock" /\ call'[c].pc = "publish")
            => tweets[call[c].tweetId].status = "manual"]_vars

\* The author's call on a failed tweet was refused and the tweet is still
\* failed with its lastError.
C11_Witness ==
  \E c \in Calls, t \in TweetIds :
    /\ call[c].pc = "done"
    /\ call[c].result =
         HttpsError("failed-precondition",
                    "Tweet must be marked as manual before publishing.")
    /\ tweets[t].status = "failed"
    /\ tweets[t].lastError # Null
    /\ \A u \in TweetIds \ {t} : tweets[u].status \notin {"scheduled", "queued"}

\* C12: a lock transaction of the sweep that ends without the lock, a rejected
\* one included, is a skip: nothing is written or posted and the invocation
\* goes on to the next item of its page.
C12_RejectedLockIsSkip ==
  [][\A s \in Sweeps :
       (sweep[s].pc = "lock" /\ sweep'[s] # sweep[s] /\ sweep'[s].pc # "publish")
         => /\ sweep'[s] = NextItem(sweep[s])
            /\ tweets' = tweets
            /\ posts' = posts]_vars

\* C13: a lock transaction, of the sweep or of manual publish, that reads
\* status `processing` or `posted` changes no field of any tweet, and its
\* attempt does not go on to the credential lookup, the upload or the post.
C13_RefusedLockChangesNothing ==
  [][/\ \A s \in Sweeps :
          (/\ sweep[s].pc = "lock"
           /\ sweep'[s] # sweep[s]
           /\ tweets[Cur(s)].exists
           /\ tweets[Cur(s)].status \in {"processing", "posted"})
          => /\ tweets' = tweets
             /\ posts' = posts
             /\ sweep'[s].pc \in {"lock", "idle"}
             /\ sweep'[s].todo # sweep[s].todo
     /\ \A c \in Calls :
          (/\ call[c].pc = "lock"
           /\ call'[c] # call[c]
           /\ tweets[call[c].tweetId].exists
           /\ tweets[call[c].tweetId].status \in {"processing", "posted"})
          => /\ tweets' = tweets
             /\ posts' = posts
             /\ call'[c].pc = "done"
             /\ call'[c].result.code # "ok"]_vars

\* A manual publish was refused because another attempt holds the tweet, and
\* that tweet is still `processing` under the other attempt's lock.
C13_Witness ==
  \E c \in Calls, s \in Sweeps :
    /\ call[c].pc = "done"
    /\ call[c].result =
         HttpsError("failed-precondition", "Tweet is already being processed.")
    /\ sweep[s].pc = "publish"
    /\ tweets[Cur(s)].status = "processing"
    /\ tweets[Cur(s)].lastUpdatedAt = "lock"

\* The attempt has read an account that is missing, of another provider or
\* incomplete, or whose ownerUid is not the tweet's author.
CredentialsUnusable ==
  /\ attempt.pc \notin {"idle", "credentials"}
  /\ \/ ~attempt.account.found
     \/ attempt.account.ownerUid # AttemptData.authorUid

UploadFailures == {"invalid", "missing", "rejected"}

\* The lastError that goes with a failed upload of the attachment at position i.
UploadFailureMessage(kind, i) ==
  IF kind = "invalid" THEN MsgMissingField
  ELSE UploadCatch(StoragePaths[i],
                   IF kind = "missing" THEN MsgNotFound(StoragePaths[i])
                   ELSE MsgRejected)

C16_MediaArity ==
  /\ attempt.err # MsgArity
  /\ attempt.payload # NoPayload
       => LET n == Len(attempt.media)
              m == IF n <= 4 THEN n ELSE 4
          IN /\ attempt.payload.text = AttemptData.text
             /\ n = 0 => attempt.payload = TextOnly(AttemptData.text)
             /\ Len(attempt.payload.media_ids) = m
             /\ \A i \in 1..m :
                  attempt.payload.media_ids[i] = MediaId(attempt.media[i].storagePath)
             /\ \A k \in 1..Len(attempt.log) : attempt.log[k][2] <= m

\* A tweet with five attachments, the fifth without storagePath, was posted
\* with four media ids.
C16_Witness ==
  /\ attempt.pc = "done"
  /\ Len(attempt.media) = 5
  /\ attempt.media[5].storagePath = Null
  /\ Len(attempt.payload.media_ids) = 4
  /\ tweets[AttemptTweet].status = "posted"

\* C17: the attachments are uploaded one after another in input order: the
\* upload of attachment i + 1 starts only after the upload of attachment i
\* has returned, and mediaIds[i] is the id returned for attachment i.
C17_SequentialOrderedUploads ==
  /\ \A k \in 1..Len(attempt.log) :
       /\ attempt.log[k][2] = (k + 1) \div 2
       /\ k % 2 = 1 => attempt.log[k][1] \in {"start", "invalid"}
       /\ k % 2 = 0 => attempt.log[k][1] \in {"return", "missing", "rejected"}
       /\ k < Len(attempt.log) => attempt.log[k][1] \in {"start", "return"}
  /\ Len(attempt.mediaIds) =
       Cardinality({k \in 1..Len(attempt.log) : attempt.log[k][1] = "return"})
  /\ \A i \in 1..Len(attempt.mediaIds) :
       attempt.mediaIds[i] = MediaId(attempt.media[i].storagePath)

\* Four attachments were uploaded in turn and the post call is next.
C17_Witness ==
  /\ attempt.pc = "post"
  /\ attempt.mediaIds =
       <<MediaId("m1"), MediaId("m2"), MediaId("m3"), MediaId("m4")>>
  /\ Len(attempt.log) = 8

\* The attempt of sweep slot s, or of call slot c, on tweet t is at its
\* markTweetPosted and acts in this step.
SweepWritesPosted(s, t) ==
  sweep[s].pc = "markPosted" /\ Cur(s) = t /\ sweep'[s] # sweep[s]
CallWritesPosted(c, t) ==
  call[c].pc = "markPosted" /\ call[c].tweetId = t /\ call'[c] # call[c]

\* C18: a tweet becomes `posted` only in the markTweetPosted step of an
\* attempt, an attempt reaches that step only by a provider post that was
\* accepted, and the write sets postedAt and lastUpdatedAt and clears lastError.
C18_PostedOnlyAfterPost ==
  [][/\ \A t \in TweetIds :
          (tweets'[t].status = "posted" /\ tweets[t].status # "posted")
            => /\ \/ \E s \in Sweeps : SweepWritesPosted(s, t)
                  \/ \E c \in Calls : CallWritesPosted(c, t)
               /\ posts[t] >= 1
               /\ tweets'[t].postedAt = "server"
               /\ tweets'[t].lastUpdatedAt = "markTweetPosted"
               /\ tweets'[t].lastError = Null
     /\ \A s \in Sweeps :
          (sweep'[s].pc = "markPosted" /\ sweep[s].pc # "markPosted")
            => (sweep[s].pc = "publish" /\ posts'[Cur(s)] = posts[Cur(s)] + 1)
     /\ \A c \in Calls :
          (call'[c].pc = "markPosted" /\ call[c].pc # "markPosted")
            => /\ call[c].pc = "publish"
               /\ posts'[call[c].tweetId] = posts[call[c].tweetId] + 1]_vars

\* A manual publish was answered with success: its tweet is posted, stamped,
\* without lastError, after one accepted post.
C18_Witness ==
  \E c \in Calls, t \in TweetIds :
    /\ call[c].pc = "done"
    /\ call[c].result = Success
    /\ tweets[t].status = "posted"
    /\ tweets[t].postedAt = "server"
    /\ tweets[t].lastUpdatedAt = "markTweetPosted"
    /\ tweets[t].lastError = Null
    /\ posts[t] = 1

\* .limit(PageLimit) applied to results of up to PageLimit + 2 documents keeps
\* the first PageLimit of them, in order.
LimitCapsPage ==
  \A n \in 0..(PageLimit + 2) :
    LET result == [i \in 1..n |-> i]
        kept == IF n <= PageLimit THEN n ELSE PageLimit
    IN Limit(result, PageLimit) = [i \in 1..kept |-> i]

\* C19: the page a sweep invocation takes from its query holds only tweets
\* that are `scheduled` or `queued` and due at that moment, in ascending
\* scheduledFor order, at most PageLimit of them; afterwards the invocation
\* works down that page from the front and attempts nothing else.
C19_SweepPage ==
  [][/\ LimitCapsPage
     /\ \A s \in Sweeps :
          /\ (sweep[s].pc = "idle" /\ sweep'[s] # sweep[s])
               => LET page == sweep'[s].todo
                  IN /\ sweep'[s].pc = "lock"
                     /\ Len(page) \in 1..PageLimit
                     /\ \A i \in 1..Len(page) :
                          /\ tweets[page[i].id].exists
                          /\ tweets[page[i].id].status \in {"scheduled", "queued"}
                          /\ tweets[page[i].id].scheduledFor <= clock
                     /\ \A i, j \in 1..Len(page) :
                          i < j => /\ page[i].id # page[j].id
                                   /\ tweets[page[i].id].scheduledFor
                                        <= tweets[page[j].id].scheduledFor
          /\ (sweep[s].pc # "idle" /\ sweep'[s] # sweep[s])
               => sweep'[s].todo \in {sweep[s].todo, Tail(sweep[s].todo), <<>>}]_vars

\* An invocation holds a page of two due tweets, earliest first, and is about
\* to lock the first.
C19_Witness ==
  \E s \in Sweeps :
    /\ sweep[s].pc = "lock"
    /\ Len(sweep[s].todo) = 2
    /\ sweep[s].todo[1].id = 1
    /\ sweep[s].todo[2].id = 2
    /\ tweets[1].scheduledFor < tweets[2].scheduledFor
    /\ tweets[2].scheduledFor <= clock

\* C20: a sweep invocation leaves the item it works on only when that item's
\* attempt is over (skipped, written `posted` or written `failed`, or the
\* invocation ends), and only then does the lock attempt for the next item of
\* the page start; so it never holds two items in `processing`.
C20_OneItemAtATime ==
  [][\A s \in Sweeps :
       LET t == Cur(s)
           rest == Tail(sweep[s].todo)
       IN /\ (sweep[s].pc # "idle" /\ sweep'[s].todo # sweep[s].todo)
               => /\ \/ sweep[s].pc = "lock" /\ tweets' = tweets
                     \/ sweep[s].pc = "markPosted" /\ tweets'[t].status = "posted"
                     \/ sweep[s].pc = "markFailure" /\ tweets'[t].status = "failed"
                     \/ sweep[s].pc = "markFailure" /\ sweep'[s] = IdleSweep
                  /\ sweep'[s] \in {IdleSweep, [pc |-> "lock", todo |-> rest, err |-> Null]}
          /\ (sweep[s].pc \in {"markPosted", "markFailure"} /\ tweets'[t] # tweets[t])
               => sweep'[s] = IF rest = <<>> THEN IdleSweep
                              ELSE [pc |-> "lock", todo |-> rest, err |-> Null]
          /\ (sweep[s].pc \in {"publish", "markPosted", "markFailure"}
              /\ sweep'[s].pc \in {"publish", "markPosted", "markFailure"})
               => sweep'[s].todo = sweep[s].todo]_vars

\* The only invocation that ran has written `failed` on the first tweet of
\* its page and holds the second one in `processing`.
C20_Witness ==
  /\ sweep[1].pc = "publish"
  /\ Cur(1) = 2
  /\ tweets[2].status = "processing"
  /\ tweets[1].status = "failed"
  /\ tweets[1].lastUpdatedAt = "markTweetFailure"
  /\ sweep[2].pc = "idle"
  /\ \A c \in Calls : call[c].pc = "idle"

\* The schedule grid as the README states it: the instants at which the
\* zone's wall clock reads an hour from 4 to 19, minute 0.
OnGrid(at) ==
  LET key == formatInTimeZone(at)
  IN /\ key[2] \in 4..19
     /\ key[3] = 0
     /\ (at + TIMEZONE) % MsPerMinute = 0

\* The slot key of `at` is that of no tweet the call was given.
FreeOf(at, scheduled) ==
  \A taken \in scheduled : formatInTimeZone(taken) # formatInTimeZone(at)

SlotReturned ==
  /\ slotCall.pc = "done"
  /\ slotCall.fn = "getNextScheduleSlot"
  /\ ~slotCall.result.threw

\* C21: a slot that getNextScheduleSlot returns is strictly after `now`, on
\* the grid (zone-local hour 4..19, minute 0), and its slot key is the key
\* of no existing tweet's scheduledFor; the same arguments give the same slot.
C21_SlotAfterNowOnGridFree ==
  SlotReturned =>
    /\ Len(slotCall.result.dates) = 1
    /\ slotCall.result.dates[1] > slotCall.now
    /\ OnGrid(slotCall.result.dates[1])
    /\ FreeOf(slotCall.result.dates[1], slotCall.scheduled)
    /\ slotCall.result = getNextScheduleSlot(slotCall.scheduled, slotCall.now)

\* `now` is exactly on a slot that no tweet has, tweets take other slots of
\* that day, and the call returned.
C21_Witness ==
  /\ SlotReturned
  /\ OnGrid(slotCall.now)
  /\ FreeOf(slotCall.now, slotCall.scheduled)
  /\ slotCall.scheduled # {}

\* The grid instants of zone-local days 0..lastDay, written out from the
\* README's hours.
GridInstants(lastDay) ==
  {(day * 24 + hour - 4) * MsPerHour : day \in 0..lastDay, hour \in 4..19}

\* C22: the slot getNextScheduleSlot returns is the chronologically earliest
\* grid slot strictly after `now` that no existing tweet has: no grid instant
\* between `now` and the returned slot is free.
C22_EarliestFreeSlot ==
  SlotReturned =>
    LET slot == slotCall.result.dates[1]
    IN \A earlier \in GridInstants(formatInTimeZone(slot)[1]) :
         (slotCall.now < earlier /\ earlier < slot) =>
           ~FreeOf(earlier, slotCall.scheduled)

\* Hours 4 and 5 of day 1 are taken, `now` is 03:30 of day 1 in the zone, and
\* the call returned 06:00 of day 1.
C22_Witness ==
  /\ SlotReturned
  /\ slotCall.now = ZoneInstant(1, 3, 30 * MsPerMinute)
  /\ {ZoneInstant(1, 4, 0), ZoneInstant(1, 5, 0)} \subseteq slotCall.scheduled
  /\ slotCall.result.dates[1] = ZoneInstant(1, 6, 0)

SlotsReturned ==
  /\ slotCall.pc = "done"
  /\ slotCall.fn = "getNextScheduleSlots"
  /\ ~slotCall.result.threw

\* C23: getNextScheduleSlots(existing, N, now), when it returns, returns
\* exactly N instants that are pairwise distinct, each strictly after `now`
\* and none with the slot key of an existing tweet.
C23_SlotsDistinctAfterNowFree ==
  SlotsReturned =>
    LET slots == slotCall.result.dates
    IN /\ Len(slots) = slotCall.count
       /\ \A i, j \in DOMAIN slots : i # j => slots[i] # slots[j]
       /\ \A i \in DOMAIN slots :
            /\ slots[i] > slotCall.now
            /\ FreeOf(slots[i], slotCall.scheduled)

\* Three slots were asked for and returned, around slots that tweets have:
\* the first two of the day are taken, and the last returned slot is on a later
\* day than the first.
C23_Witness ==
  /\ SlotsReturned
  /\ slotCall.count = 3
  /\ Len(slotCall.result.dates) = 3
  /\ \E taken \in slotCall.scheduled :
       slotCall.now < taken /\ taken < slotCall.result.dates[3]
  /\ formatInTimeZone(slotCall.result.dates[1])[1]
       < formatInTimeZone(slotCall.result.dates[3])[1]

\* The grid instants of the HorizonDays zone-local days that start with the day
\* of `now`, strictly after `now`, whose key no existing tweet has.
FreeWithinHorizon ==
  LET today == formatInTimeZone(slotCall.now)[1]
      takenKeys == {formatInTimeZone(taken) : taken \in slotCall.scheduled}
  IN {at \in GridInstants(today + HorizonDays - 1) :
        /\ at > slotCall.now
        /\ formatInTimeZone(at)[1] >= today
        /\ formatInTimeZone(at) \notin takenKeys}

\* C24: when the days of the horizon, starting at the zone-local day of
\* `now`, hold no free slot after `now` (fewer than `count` for
\* getNextScheduleSlots), the call throws its error; what a call returns is
\* free, after `now` and within the horizon, and is as long as was asked.
C24_ExhaustedHorizonThrows ==
  slotCall.pc = "done" =>
    LET free == FreeWithinHorizon
    IN /\ Cardinality(free) < slotCall.count =>
            /\ slotCall.result.threw
            /\ slotCall.result.dates = <<>>
            /\ slotCall.result.message =
                 IF slotCall.fn = "getNextScheduleSlot" THEN MsgNoSlot ELSE MsgNoSlots
       /\ ~slotCall.result.threw =>
            /\ Len(slotCall.result.dates) = slotCall.count
            /\ \A i \in DOMAIN slotCall.result.dates :
                 slotCall.result.dates[i] \in free

\* getNextScheduleSlots was asked for more slots than the horizon has free,
\* the horizon having at least one, and threw.
C24_Witness ==
  /\ slotCall.pc = "done"
  /\ slotCall.fn = "getNextScheduleSlots"
  /\ slotCall.result.threw
  /\ FreeWithinHorizon # {}
  /\ Cardinality(FreeWithinHorizon) < slotCall.count

\* C25: whatever the interleaving of composer creates, retweet clones and
\* bulk runs on one account, no two stored tweets of the account have the
\* same scheduledFor slot.
C25_NoSharedSlot ==
  \A i, j \in DOMAIN board.docs :
    i # j => formatInTimeZone(board.docs[i]) # formatInTimeZone(board.docs[j])

\* C26: bulkScheduleTweets called with no file, or with fewer slots than
\* files, throws at once: once the call has started and as long as it lasts,
\* nothing was uploaded, nothing created, no progress notified.
C26_BadArgumentsFailFirst ==
  (bulk.pc \notin {"idle", "called"}
     /\ (Len(bulk.files) = 0 \/ Len(bulk.slots) < Len(bulk.files))) =>
    /\ bulk.pc = "thrown"
    /\ bulk.message = IF Len(bulk.files) = 0 THEN MsgNoFiles ELSE MsgNotEnoughSlots
    /\ bulk.pairs = <<>>
    /\ bulk.outcomes = <<>>
    /\ bulk.progress = <<>>
    /\ bulk.completed = 0 /\ bulk.failed = 0

\* A call with a progress callback, two files or more and fewer slots than
\* files has thrown.
C26_Witness ==
  /\ bulk.pc = "thrown"
  /\ bulk.hasSink
  /\ Len(bulk.files) >= 2
  /\ Len(bulk.slots) >= 1
  /\ Len(bulk.slots) < Len(bulk.files)

\* seq holds every element of `of` exactly once and nothing else.
IsArrangementOf(seq, of) ==
  /\ Len(seq) = Len(of)
  /\ \A i, j \in DOMAIN seq : i # j => seq[i] # seq[j]
  /\ {seq[i] : i \in DOMAIN seq} = {of[i] : i \in DOMAIN of}

\* The loop has taken its file and slot for every i.
AllAttempted == bulk.pc \in {"final", "returned"}

\* C27: with N files and at least N slots, the (file, slot) pairs the loop
\* attempts pair every file exactly once with N pairwise distinct slots, which
\* are the first N of the supplied list, whatever j the shuffles draw; and
\* while the loop runs no file and no slot is attempted twice.
C27_FilesToSlotsBijection ==
  /\ \A i, j \in DOMAIN bulk.pairs :
       i # j => bulk.pairs[i][1] # bulk.pairs[j][1] /\ bulk.pairs[i][2] # bulk.pairs[j][2]
  /\ \A i \in DOMAIN bulk.pairs :
       /\ \E f \in DOMAIN bulk.files : bulk.files[f] = bulk.pairs[i][1]
       /\ \E n \in 1..Len(bulk.files) :
            n <= Len(bulk.slots) /\ bulk.slots[n] = bulk.pairs[i][2]
  /\ AllAttempted =>
       /\ IsArrangementOf([i \in DOMAIN bulk.pairs |-> bulk.pairs[i][1]], bulk.files)
       /\ IsArrangementOf([i \in DOMAIN bulk.pairs |-> bulk.pairs[i][2]],
                          slice(bulk.slots, Len(bulk.files)))

\* Three files and four slots: the run is over, the first file attempted is not
\* the first selected and the slot of the first selected file is not the
\* first supplied.
C27_Witness ==
  /\ bulk.pc = "returned"
  /\ Len(bulk.files) = 3
  /\ Len(bulk.slots) = 4
  /\ bulk.pairs[1][1] # bulk.files[1]
  /\ \E i \in DOMAIN bulk.pairs :
       bulk.pairs[i][1] = bulk.files[1] /\ bulk.pairs[i][2] # bulk.slots[1]

\* The error messages pushed for file f.
ErrorsOf(f) == {e \in DOMAIN bulk.errors : bulk.errors[e][1] = f}

\* C28: a file whose upload or creation fails does not end the batch: a call
\* with N files and enough slots never throws, attempts all N files, and
\* returns successful + failed = N with exactly one error message for each
\* file that failed and none for the others.
C28_FailuresDoNotStopBatch ==
  /\ bulk.pc = "thrown" =>
       (Len(bulk.files) = 0 \/ Len(bulk.slots) < Len(bulk.files))
  /\ bulk.completed + bulk.failed = Len(bulk.outcomes)
  /\ Len(bulk.errors) = bulk.failed
  /\ \A o \in DOMAIN bulk.outcomes :
       Cardinality(ErrorsOf(bulk.outcomes[o][1])) =
         IF bulk.outcomes[o][2] = "failed" THEN 1 ELSE 0
  /\ AllAttempted =>
       /\ Len(bulk.pairs) = Len(bulk.files)
       /\ Len(bulk.outcomes) = Len(bulk.files)
       /\ \A i \in DOMAIN bulk.pairs : bulk.outcomes[i][1] = bulk.pairs[i][1]
       /\ bulk.completed + bulk.failed = Len(bulk.files)

\* The run has returned: the first file attempted failed at its upload, a
\* later one at its creation, and the last one was created.
C28_Witness ==
  /\ bulk.pc = "returned"
  /\ Len(bulk.files) = 3
  /\ bulk.outcomes[1][2] = "failed"
  /\ bulk.outcomes[3][2] = "created"
  /\ bulk.failed = 2
  /\ bulk.errors[1][2] = MsgUploadRejected
  /\ bulk.errors[2][2] = MsgCreateRejected

\* C29: with a progress callback, the n-th notification carries total = N and
\* completed + failed = n - 1, the counts of the files finished so far; it has
\* been delivered when the upload of the n-th file is under way, and the
\* notification with completed + failed = N when the result is returned;
\* neither count ever decreases from one notification to the next.
C29_ProgressAfterEachItem ==
  bulk.hasSink =>
    /\ \A n \in DOMAIN bulk.progress :
         /\ bulk.progress[n].total = Len(bulk.files)
         /\ bulk.progress[n].completed + bulk.progress[n].failed = n - 1
         /\ n > 1 =>
              /\ bulk.progress[n].completed >= bulk.progress[n - 1].completed
              /\ bulk.progress[n].failed >= bulk.progress[n - 1].failed
    /\ bulk.pc \in {"upload", "create"} =>
         /\ Len(bulk.progress) = bulk.i
         /\ bulk.progress[bulk.i].completed = bulk.completed
         /\ bulk.progress[bulk.i].failed = bulk.failed
         /\ Len(bulk.outcomes) = bulk.i - 1
    /\ bulk.pc = "returned" =>
         /\ Len(bulk.progress) = Len(bulk.files) + 1
         /\ bulk.progress[Len(bulk.progress)].completed = bulk.completed
         /\ bulk.progress[Len(bulk.progress)].failed = bulk.failed

\* The upload of the third file is under way after one file failed and one
\* was created, and the callback has received the counts 1 and 1.
C29_Witness ==
  /\ bulk.hasSink
  /\ bulk.pc = "upload"
  /\ bulk.i = 3
  /\ Len(bulk.progress) = 3
  /\ bulk.progress[3].completed = 1
  /\ bulk.progress[3].failed = 1

\* C30: when a step of the import fails after the group document was
\* created, the call answers `internal` with the message of that failure,
\* and only after it has deleted the group: the group is gone unless the
\* store rejected the delete, which does not change the answer, and no
\* account is left under it. When the call succeeds, the group it names is
\* stored and the account it names is stored under that group.
C30_ImportRollsBackGroup ==
  legacy.pc = "responded" =>
    /\ (legacy.groupRef # NoRef /\ legacy.response.code # "ok") =>
         /\ legacy.response = LegacyError("internal", legacy.error)
         /\ legacy.rollback \in {"deleted", "rejected"}
         /\ legacy.rollback = "deleted" => legacy.groupRef \notin legacy.groups
         /\ \A account \in legacy.accounts : account.groupId # legacy.groupRef
    /\ legacy.response.code = "ok" =>
         /\ legacy.response.groupId = legacy.groupRef
         /\ legacy.response.groupId \in legacy.groups
         /\ \E account \in legacy.accounts :
              /\ account.id = legacy.response.accountId
              /\ account.groupId = legacy.response.groupId
              /\ account.ownerUid = legacy.in.auth

\* A second import failed at the account after an earlier one succeeded: its
\* group was created and deleted again, the earlier group is still there.
C30_Witness ==
  /\ legacy.pc = "responded"
  /\ legacy.calls = 2
  /\ legacy.groupRef = 2
  /\ legacy.response.code = "internal"
  /\ legacy.rollback = "deleted"
  /\ legacy.groups = {1}

\* C31: an attempt whose process stopped after its lock transaction and
\* before its terminal write leaves its tweet `processing` for good: whatever
\* sweep invocations and manual publish calls run afterwards, the status of
\* that tweet is `processing`.
C31_StoppedStaysProcessing ==
  /\ \A s \in Sweeps :
       sweep[s].pc = "stopped" => tweets[Cur(s)].status = "processing"
  /\ \A c \in Calls :
       call[c].pc = "stopped" => tweets[call[c].tweetId].status = "processing"

\* A sweep's process stopped while it held a tweet; afterwards a manual
\* publish on a tweet was answered "already being processed", and another
\* invocation of the sweep has gone through its page and returned.
C31_Witness ==
  /\ sweep[1].pc = "stopped"
  /\ sweep[2].pc = "idle"
  /\ clock = MaxClock
  /\ \E c \in Calls :
       /\ call[c].pc = "done"
       /\ call[c].result =
            HttpsError("failed-precondition", "Tweet is already being processed.")

\* What `count` successive calls of getNextScheduleSlot give when each call is
\* handed the tweets of the call before plus one tweet at the slot that call
\* returned: the slots in the order of the calls, or the throw of the first
\* call that finds none.
RECURSIVE SlotBySlot(_, _, _, _)
SlotBySlot(scheduled, count, now, slots) ==
  IF Len(slots) >= count THEN Returned(slots)
  ELSE LET next == getNextScheduleSlot(scheduled, now)
       IN IF next.threw THEN next
          ELSE SlotBySlot(scheduled \cup {next.dates[1]}, count, now,
                          Append(slots, next.dates[1]))

\* C32: getNextScheduleSlots(existing, N, now) returns what N successive
\* calls of getNextScheduleSlot return when each slot returned is added to
\* the existing tweets before the next call, and throws exactly when one of
\* those calls throws; the first slot of a returned list is
\* getNextScheduleSlot(existing, now), and the list is strictly ascending.
C32_SlotsAreSlotBySlot ==
  (slotCall.pc = "done" /\ slotCall.fn = "getNextScheduleSlots") =>
    LET slots == slotCall.result.dates
        oneByOne == SlotBySlot(slotCall.scheduled, slotCall.count, slotCall.now, <<>>)
        first == getNextScheduleSlot(slotCall.scheduled, slotCall.now)
    IN /\ slotCall.result.threw = oneByOne.threw
       /\ ~slotCall.result.threw =>
            /\ slots = oneByOne.dates
            /\ slotCall.count >= 1 => (~first.threw /\ slots[1] = first.dates[1])
            /\ \A i, j \in DOMAIN slots : i < j => slots[i] < slots[j]

\* Three slots were returned around a taken one: a tweet sits between the
\* second and the third slot returned, so the second and third single calls
\* start from different sets of tweets.
C32_Witness ==
  /\ SlotsReturned
  /\ slotCall.count = 3
  /\ \E taken \in slotCall.scheduled :
       slotCall.result.dates[2] < taken /\ taken < slotCall.result.dates[3]

\* C33: when a sweep attempt commits its lock on a tweet, the text it goes on
\* to post (the data of its query snapshot, handed to publishTweetWithClient)
\* is the text stored in the tweet at that moment.
C33_PostsTextAtLock ==
  [][\A s \in Sweeps :
       (sweep[s].pc = "lock" /\ sweep'[s].pc = "publish") =>
         CurDoc(s).data.text = tweets[Cur(s)].text]_vars

\* C34: no sweep attempt goes on to publish a tweet that its lock transaction
\* read as `manual` or `draft`: a lock transaction of the sweep that reads one
\* of these two statuses does not acquire the lock.
C34_SweepSkipsManualAndDraft ==
  [][\A s \in Sweeps :
       (sweep[s].pc = "lock" /\ tweets[Cur(s)].status \in {"manual", "draft"})
         => sweep'[s].pc # "publish"]_vars

\* C35: a tweet is `failed` only if no provider post call for it succeeded:
\* an attempt whose post was accepted never leaves the tweet `failed`, also
\* when the write of the `posted` record fails afterwards.
C35_FailedOnlyIfPostFailed ==
  \A t \in TweetIds :
    (tweets[t].exists /\ tweets[t].status = "failed") => posts[t] = 0

\* The phases of an attempt between its lock and its end.
AttemptPhases == {"publish", "markPosted", "markFailure"}

\* C36: every attempt that acquired the lock and runs to its end (no call
\* hangs and the process lives on) ends with the tweet `posted` or `failed`:
\* no attempt ends with the tweet still `processing`.
C36_AttemptEndsTerminal ==
  [][/\ \A s \in Sweeps :
          (sweep[s].pc \in AttemptPhases /\ sweep'[s].pc \notin AttemptPhases)
            => tweets'[Cur(s)].status \in {"posted", "failed"}
     /\ \A c \in Calls :
          (call[c].pc \in AttemptPhases /\ call'[c].pc \notin AttemptPhases)
            => tweets'[call[c].tweetId].status \in {"posted", "failed"}]_vars

\* The sweep's query would return tweet t now.
IsDue(t) == t \in DueTweets(clock)

\* Some sweep invocation holds the lock it has just acquired on t.
LockedBySweep(t) == \E s \in Sweeps : sweep[s].pc = "publish" /\ Cur(s) = t

\* C37: while the sweep keeps being triggered and nobody edits, every tweet
\* that is `scheduled` or `queued` with scheduledFor passed is eventually
\* locked by a sweep invocation, also when more tweets are due than one page
\* of the query holds.
C37_DueEventuallyLocked == \A t \in TweetIds : IsDue(t) ~> LockedBySweep(t)

\* More tweets are due than a page holds: an invocation is in its lock
\* transaction with a full page and a due tweet is not on that page.
C37_Witness ==
  \E s \in Sweeps :
    /\ sweep[s].pc = "lock"
    /\ Len(sweep[s].todo) = PageSize
    /\ \E t \in TweetIds :
         /\ IsDue(t)
         /\ \A i \in DOMAIN sweep[s].todo : sweep[s].todo[i].id # t

\* C38: the transaction of a manual publish called by an authenticated user
\* who is not the tweet's author answers permission-denied whatever the
\* tweet's status, and changes nothing; on a tweet that does not exist it
\* answers not-found whoever calls. (A transaction the store rejects answers
\* `internal`, whatever the tweet and the caller.)
C38_NonOwnerAnswerIgnoresStatus ==
  [][\A c \in Calls :
       LET doc == tweets[call[c].tweetId]
       IN (call[c].pc = "lock" /\ call'[c] # call[c] /\ call'[c].result # PrepareError)
            => /\ ~doc.exists =>
                    call'[c] = Responded(HttpsError("not-found", "Tweet not found."))
               /\ (doc.exists /\ doc.authorUid # call[c].auth) =>
                    /\ call'[c] = Responded(HttpsError("permission-denied",
                                       "You do not have access to this tweet."))
                    /\ tweets' = tweets
                    /\ posts' = posts]_vars

\* A user who is not the author was answered permission-denied while the
\* only tweet of the collection is held by an attempt (`processing`).
C38_Witness ==
  /\ \E c \in Calls :
       /\ call[c].pc = "done"
       /\ call[c].result =
            HttpsError("permission-denied", "You do not have access to this tweet.")
  /\ \A t \in TweetIds : tweets[t].exists => tweets[t].status = "processing"
  /\ \E s \in Sweeps : sweep[s].pc = "publish"

\* C39: whatever the interleaving of retweet, edit and delete handlers, every
\* attachment of every tweet that remains in the collection (a tweet that
\* exists and that nobody asked to delete) has its object in Storage: the
\* cleanup deletes no object that a remaining tweet references.
C39_ReferencedMediaKept ==
  \A d \in MediaDocIds :
    (board.mediaDocs[d].exists /\ d \notin board.deleting) =>
      \A i \in DOMAIN board.mediaDocs[d].media :
        board.mediaDocs[d].media[i] \in board.objects

\* C40: the scheduledFor that the composer gives a new tweet is strictly
\* later than the instant of the submit, however long the page has been open
\* since its tweet list last changed: every draft a handler appends to
\* board.pending is for an instant after board.now.
C40_SlotAfterSubmit ==
  [][Len(board'.pending) > Len(board.pending)
       => board'.pending[Len(board'.pending)] > board.now]_vars

=============================================================================
